---- MODULE Spec2Model ----
(***************************************************************************)
(* FlowVectorCorrections: the correction-step pipeline.                    *)
(*                                                                         *)
(* A detector configuration owns a plain Qn vector, a current Qn vector    *)
(* and an ordered list of correction steps.  A tracking configuration      *)
(* carries a chain of Recentering steps; a channelized configuration       *)
(* carries an InputGainEqualization step.  Configurations share no mutable *)
(* state, so a behaviour follows one configuration, drawn in Init.         *)
(***************************************************************************)
EXTENDS Integers, Sequences, FiniteSets, TLC

VARIABLES
  plain,      \* fPlainQnVector of the detector configuration
  cur,        \* the current Qn vector: 0 = the plain vector, i = step i's corrected output
  evClass,    \* the event class bin the variable container of the event selects
  steps,      \* the ordered list of Recentering steps (fQnVectorCorrections)
  gain,       \* the InputGainEqualization step, <<>> when the configuration has none
  conf,       \* construction parameters of the configuration
  event,      \* bookkeeping of the event loop: events so far, steps run in this event
  aborted,    \* TRUE once a fatal error or a crash has stopped the process
  last,       \* the operation that ran last, with its arguments and return value
  bank,       \* the input data bank of the configuration: the data vectors of the event
  qn          \* a Qn vector on its own, <<>> when the behaviour follows a configuration

vars == <<plain, cur, evClass, steps, gain, conf, event, aborted, last, bank, qn>>

---------------------------------------------------------------------------
(* Bounds of the model *)

\* the longest chain of Recentering steps of a configuration
MaxSteps == 2
\* the number of events of a run
MaxEvents == 2

(* Program constants *)

nMaxHarmonicNumberSupported == 15
fDefaultMinNoOfEntries == 2

\* the event classes (bins of the event class variables set)
Bins == {1, 2}

---------------------------------------------------------------------------
(* Float_t values: exact rationals <<numerator, denominator>>, denominator *)
(* positive.  Every finite value of the model is a rational of small       *)
(* magnitude.  A zero denominator is a value that is not finite: <<1, 0>>  *)
(* and <<-1, 0>> are the infinities, <<0, 0>> is NaN.                      *)

Abs(x) == IF x < 0 THEN -x ELSE x
Sgn(x) == IF x < 0 THEN -1 ELSE IF x = 0 THEN 0 ELSE 1

RECURSIVE GCD(_, _)
GCD(a, b) == IF b = 0 THEN a ELSE GCD(b, a % b)

Norm(n, d) ==
  IF d = 0 THEN <<Sgn(n), 0>>
  ELSE LET g == GCD(Abs(n), Abs(d))
           s == IF d < 0 THEN -1 ELSE 1
       IN  <<(s * n) \div g, (s * d) \div g>>

F(i) == <<i, 1>>
\* the minimum value considered as meaningful for processing, 1e-6
fMinimumSignificantValue == <<1, 1000000>>
NaN == <<0, 0>>
FAdd(a, b) ==
  IF a[2] = 0 /\ b[2] = 0 THEN (IF a = b THEN a ELSE NaN)
  ELSE Norm(a[1] * b[2] + b[1] * a[2], a[2] * b[2])
FSub(a, b) == FAdd(a, <<-b[1], b[2]>>)
FMul(a, b) == Norm(a[1] * b[1], a[2] * b[2])
\* a division by zero gives an infinity, or NaN when a is zero as well
FDiv(a, b) ==
  IF b[1] < 0 THEN Norm(-(a[1] * b[2]), a[2] * (-b[1]))
  ELSE Norm(a[1] * b[2], a[2] * b[1])
\* a comparison with NaN is false
FLess(a, b) == a[1] * b[2] < b[1] * a[2]

\* the largest r in lo .. hi with r * r <= x
RECURSIVE ISqrtIn(_, _, _)
ISqrtIn(x, lo, hi) ==
  IF lo = hi THEN lo
  ELSE LET mid == (lo + hi + 1) \div 2
       IN  IF mid * mid <= x THEN ISqrtIn(x, mid, hi) ELSE ISqrtIn(x, lo, mid - 1)
ISqrt(x) == ISqrtIn(x, 0, 46340)

\* TMath::Sqrt: exact on a ratio of perfect squares, else rounded down to
\* a multiple of 1/16 (Float_t rounds as well, on a finer grid)
Sqrt(a) ==
  IF a[1] < 0 \/ a = NaN THEN NaN
  ELSE IF a[2] = 0 THEN a
  ELSE LET rn == ISqrt(a[1])
           rd == ISqrt(a[2])
       IN  IF rn * rn = a[1] /\ rd * rd = a[2] THEN Norm(rn, rd)
           ELSE Norm(ISqrt((a[1] * 256) \div a[2]), 16)

---------------------------------------------------------------------------
(* Pointers: <<>> is NULL, <<x>> points to x *)

NULL == <<>>
New(x) == <<x>>
Obj(p) == p[1]

---------------------------------------------------------------------------
(* QnCorrectionsQnVector (the named variant with a quality flag) *)

HarmonicIndex == 0 .. nMaxHarmonicNumberSupported

\* a & m for a mask m with at most one bit set
BitAnd(a, m) == IF m = 0 THEN 0 ELSE IF (a \div m) % 2 = 1 THEN m ELSE 0

\* a | m for a mask m with at most one bit set
BitOr(a, m) == IF BitAnd(a, m) = m THEN a ELSE a + m

harmonicNumberMask(h) == IF h = 0 THEN 0 ELSE 2 ^ h

ZeroArray == [h \in HarmonicIndex |-> F(0)]

\* harmonicMap is NULL (<<>>) or the ordered sequence of external harmonic numbers
RECURSIVE CtorMask(_, _, _, _, _)
CtorMask(mask, currentHarmonic, h, nNoOfHarmonics, harmonicMap) ==
  IF h >= nNoOfHarmonics THEN mask
  ELSE LET c == IF harmonicMap # NULL THEN harmonicMap[h + 1] ELSE currentHarmonic + 1
       IN  CtorMask(BitOr(mask, harmonicNumberMask(c)), c, h + 1, nNoOfHarmonics, harmonicMap)

QnVectorCtor(nNoOfHarmonics, harmonicMap) ==
  [ fQnX |-> ZeroArray,
    fQnY |-> ZeroArray,
    fHighestHarmonic |-> IF harmonicMap # NULL THEN harmonicMap[nNoOfHarmonics]
                         ELSE nNoOfHarmonics,
    fHarmonicMask |-> CtorMask(0, 0, 0, nNoOfHarmonics, harmonicMap),
    fGoodQuality |-> FALSE ]

IsActive(v, h) ==
  BitAnd(v.fHarmonicMask, harmonicNumberMask(h)) = harmonicNumberMask(h)

\* the active harmonics, the ascending sequence GetFirstHarmonic/GetNextHarmonic walk
ActiveHarmonics(v) == {h \in 1 .. v.fHighestHarmonic : IsActive(v, h)}

GetFirstHarmonic(v) ==
  LET active == ActiveHarmonics(v)
  IN  IF active = {} THEN -1 ELSE CHOOSE h \in active : \A k \in active : h <= k

GetNextHarmonic(v, harmonic) ==
  LET rest == {h \in ActiveHarmonics(v) : h > harmonic}
  IN  IF rest = {} THEN -1 ELSE CHOOSE h \in rest : \A k \in rest : h <= k

GetNoOfHarmonics(v) == Cardinality(ActiveHarmonics(v))

RECURSIVE HarmonicsMapFrom(_, _)
HarmonicsMapFrom(v, harmonic) ==
  IF harmonic = -1 THEN <<>>
  ELSE <<harmonic>> \o HarmonicsMapFrom(v, GetNextHarmonic(v, harmonic))

GetHarmonicsMap(v) == HarmonicsMapFrom(v, GetFirstHarmonic(v))

\* Set raises a fatal error when the harmonic structures differ
SetIsFatal(v, Qn) ==
  \/ v.fHighestHarmonic # Qn.fHighestHarmonic
  \/ v.fHarmonicMask # Qn.fHarmonicMask

QnSet(v, Qn) ==
  IF SetIsFatal(v, Qn) THEN v
  ELSE [v EXCEPT !.fQnX = Qn.fQnX, !.fQnY = Qn.fQnY, !.fGoodQuality = Qn.fGoodQuality]

QnResetKeepingQuality(v) == [v EXCEPT !.fQnX = ZeroArray, !.fQnY = ZeroArray]

QnReset(v) ==
  [v EXCEPT !.fQnX = ZeroArray, !.fQnY = ZeroArray, !.fGoodQuality = FALSE]

SetQx(v, h, x) == [v EXCEPT !.fQnX[h] = x]
SetQy(v, h, y) == [v EXCEPT !.fQnY[h] = y]
SetGood(v, good) == [v EXCEPT !.fGoodQuality = good]

---------------------------------------------------------------------------
(* The calibration-statistics store (external collaborator) *)

\* A persisted calibration artifact of a previous pass: per event class the
\* number of entries, and the mean and the spread of the Qn vector components
PrevPassFiles ==
  { [entries |-> <<2, 1>>, meanX |-> 2, meanY |-> 2, errX |-> 2, errY |-> 4] }

NoFile == [entries |-> <<0, 0>>, meanX |-> 0, meanY |-> 0, errX |-> 0, errY |-> 0]

\* The list handed to AttachInput: it holds the histograms of a previous pass or not
InputLists == {NULL} \cup {New(f) : f \in PrevPassFiles}

\* QnCorrectionsProfileComponents as fInputHistograms
ProfileComponentsCtor == [attached |-> FALSE, threshold |-> 0, file |-> NoFile]
SetNoOfEntriesThreshold(p, n) == [p EXCEPT !.threshold = n]
AttachHistogramsOk(list) == list # NULL
AttachHistograms(p, list) ==
  IF AttachHistogramsOk(list) THEN [p EXCEPT !.attached = TRUE, !.file = Obj(list)] ELSE p
BinContentValidated(p, bin) == ~(p.file.entries[bin] < p.threshold)
GetXBinContent(p, harmonic, bin) == F(p.file.meanX)
GetYBinContent(p, harmonic, bin) == F(p.file.meanY)
GetXBinError(p, harmonic, bin) == F(p.file.errX)
GetYBinError(p, harmonic, bin) == F(p.file.errY)

\* QnCorrectionsProfileComponents as fCalibrationHistograms: per event class and
\* harmonic the number of fills and the sum of the values filled, for X and for Y
NoFills == [nX |-> 0, sumX |-> F(0), nY |-> 0, sumY |-> F(0)]
CreateComponentsProfileHistograms(harmonics) ==
  [k \in Bins \X harmonics |-> NoFills]
FillX(c, harmonic, bin, x) ==
  [c EXCEPT ![<<bin, harmonic>>].nX = @ + 1, ![<<bin, harmonic>>].sumX = FAdd(@, x)]
FillY(c, harmonic, bin, y) ==
  [c EXCEPT ![<<bin, harmonic>>].nY = @ + 1, ![<<bin, harmonic>>].sumY = FAdd(@, y)]

\* QnCorrectionsHistogramSparse as fQANotValidatedBin: a counter per event class
CreateHistogram == [b \in Bins |-> 0]
SparseFill(q, bin) == [q EXCEPT ![bin] = @ + 1]

---------------------------------------------------------------------------
(* The correction step state machine *)

QCORRSTEP_calibration == "calibration"
QCORRSTEP_applyCollect == "applyCollect"
QCORRSTEP_apply == "apply"

\* the state a correction step is constructed in
InitialState == QCORRSTEP_calibration

StateRank(state) ==
  CASE state = QCORRSTEP_calibration -> 0
    [] state = QCORRSTEP_applyCollect -> 1
    [] state = QCORRSTEP_apply -> 2

---------------------------------------------------------------------------
(* The detector configuration *)

\* the harmonics the configuration handles
ConfHarmonics == ActiveHarmonics(QnVectorCtor(conf.nNoOfHarmonics, conf.harmonicMap))

\* the vector a reference denotes: 0 the plain vector, i the corrected output of step i
Vec(ref) == IF ref = 0 THEN plain ELSE Obj(steps[ref].fCorrectedQnVector)

GetCurrentQnVector == Vec(cur)

\* the reference GetPreviousCorrectedQnVector returns for step s: the corrected
\* Qn vector of its predecessor (-1: a NULL pointer, the predecessor has none yet),
\* or the plain Qn vector
GetPreviousCorrectedQnVector(s) ==
  IF s > 1
  THEN IF steps[s - 1].fCorrectedQnVector # NULL THEN s - 1 ELSE -1
  ELSE 0

---------------------------------------------------------------------------
(* QnCorrectionsQnVectorRecentering *)

RecenteringCtor ==
  [ fState |-> InitialState,
    fCorrectedQnVector |-> NULL,
    fInputQnVector |-> -1,
    fInputHistograms |-> NULL,
    fCalibrationHistograms |-> NULL,
    fQANotValidatedBin |-> NULL,
    fApplyWidthEqualization |-> FALSE,
    fMinNoOfEntriesToValidate |-> fDefaultMinNoOfEntries ]

\* a faulty variant of RecCreateSupportDataStructures: the harmonic map is
\* not handed to the constructor
RecCreateSupportDataStructuresNoMap(st, nNoOfHarmonics, harmonicsMap, previous) ==
  [st EXCEPT !.fCorrectedQnVector = New(QnVectorCtor(nNoOfHarmonics, NULL)),
             !.fInputQnVector = previous]

RecCreateSupportDataStructures(st, nNoOfHarmonics, harmonicsMap, previous) ==
  [st EXCEPT !.fCorrectedQnVector = New(QnVectorCtor(nNoOfHarmonics, harmonicsMap)),
             !.fInputQnVector = previous]

RecCreateSupportHistograms(st, harmonics) ==
  [st EXCEPT
     !.fInputHistograms =
        New(SetNoOfEntriesThreshold(ProfileComponentsCtor, st.fMinNoOfEntriesToValidate)),
     !.fCalibrationHistograms = New(CreateComponentsProfileHistograms(harmonics))]

\* a faulty variant of RecAttachInput: the state moves before the attachment is tried
RecAttachInputEager(st, list) ==
  IF AttachHistogramsOk(list)
  THEN [st |-> [st EXCEPT !.fInputHistograms = New(AttachHistograms(Obj(@), list)),
                          !.fState = QCORRSTEP_applyCollect],
        ret |-> TRUE]
  ELSE [st |-> [st EXCEPT !.fState = QCORRSTEP_applyCollect], ret |-> FALSE]
\* fInputHistograms is not NULL
RecAttachInput(st, list) ==
  IF AttachHistogramsOk(list)
  THEN [st |-> [st EXCEPT !.fInputHistograms = New(AttachHistograms(Obj(@), list)),
                          !.fState = QCORRSTEP_applyCollect],
        ret |-> TRUE]
  ELSE [st |-> st, ret |-> FALSE]

RecCreateNveQAHistograms(st) ==
  [st EXCEPT !.fQANotValidatedBin = New(CreateHistogram)]

\* a faulty variant of RecenterLoop: the widths are never applied
RECURSIVE RecenterLoopNoWidth(_, _, _, _, _, _)
RecenterLoopNoWidth(corrected, current, hist, bin, widthEq, harmonic) ==
  IF harmonic = -1 THEN corrected
  ELSE LET qx == FSub(current.fQnX[harmonic], GetXBinContent(hist, harmonic, bin))
           qy == FSub(current.fQnY[harmonic], GetYBinContent(hist, harmonic, bin))
       IN  RecenterLoopNoWidth(SetQy(SetQx(corrected, harmonic, qx), harmonic, qy),
                               current, hist, bin, widthEq, GetNextHarmonic(current, harmonic))
RECURSIVE RecenterLoop(_, _, _, _, _, _)
RecenterLoop(corrected, current, hist, bin, widthEq, harmonic) ==
  IF harmonic = -1 THEN corrected
  ELSE LET widthX == IF widthEq THEN GetXBinError(hist, harmonic, bin) ELSE F(1)
           widthY == IF widthEq THEN GetYBinError(hist, harmonic, bin) ELSE F(1)
           qx == FDiv(FSub(current.fQnX[harmonic], GetXBinContent(hist, harmonic, bin)), widthX)
           qy == FDiv(FSub(current.fQnY[harmonic], GetYBinContent(hist, harmonic, bin)), widthY)
       IN  RecenterLoop(SetQy(SetQx(corrected, harmonic, qx), harmonic, qy),
                        current, hist, bin, widthEq, GetNextHarmonic(current, harmonic))

\* a faulty variant of InputIsGood: the quality of the current Qn vector is ignored
InputIsGoodAlways(current) == TRUE
\* the test on the current Qn vector ProcessCorrections branches on
InputIsGood(current) == current.fGoodQuality

\* a faulty variant of BadQualityCase: the corrected Qn vector is reset
BadQualityCaseReset(st) ==
  [st EXCEPT !.fCorrectedQnVector = New(QnReset(Obj(@)))]
\* the current Qn vector has bad quality: the corrected one is flagged, nothing else
BadQualityCase(st) ==
  [st EXCEPT !.fCorrectedQnVector = New(SetGood(Obj(@), FALSE))]

\* a faulty variant of NotValidatedCase: the corrected Qn vector is flagged as bad
NotValidatedCaseBad(st, copied, bin) ==
  [st EXCEPT !.fCorrectedQnVector = New(SetGood(copied, FALSE)),
             !.fQANotValidatedBin = IF @ # NULL THEN New(SparseFill(Obj(@), bin)) ELSE @]

\* a faulty variant of NotValidatedCase: the corrected Qn vector is left at zero
NotValidatedCaseZeroed(st, copied, bin) ==
  [st EXCEPT !.fCorrectedQnVector = New([copied EXCEPT !.fQnX = ZeroArray, !.fQnY = ZeroArray]),
             !.fQANotValidatedBin = IF @ # NULL THEN New(SparseFill(Obj(@), bin)) ELSE @]
\* the correction parameters of the bin are not validated: copied is the corrected
\* Qn vector after Set, it stays as it is and the bin is counted when the QA
\* histogram exists
NotValidatedCase(st, copied, bin) ==
  [st EXCEPT !.fCorrectedQnVector = New(copied),
             !.fQANotValidatedBin = IF @ # NULL THEN New(SparseFill(Obj(@), bin)) ELSE @]

\* The outcome of ProcessCorrections: the step afterwards, the value returned, whether
\* UpdateCurrentQnVector was reached, and whether the call ended the process (a
\* fatal error in Set, or a read through a pointer or a histogram that is not there).
\* ApplyCase is the code of the states applyCollect and apply.
ApplyCase(st, current, bin) ==
  IF st.fCorrectedQnVector = NULL
  THEN [st |-> st, ret |-> FALSE, update |-> FALSE, abort |-> TRUE]
  ELSE IF ~InputIsGood(current)
  THEN [st |-> BadQualityCase(st), ret |-> TRUE, update |-> TRUE, abort |-> FALSE]
  ELSE IF SetIsFatal(Obj(st.fCorrectedQnVector), current)
  THEN [st |-> st, ret |-> FALSE, update |-> FALSE, abort |-> TRUE]
  ELSE LET copied == QnSet(Obj(st.fCorrectedQnVector), current)
       IN  IF st.fInputHistograms = NULL \/ ~Obj(st.fInputHistograms).attached
           THEN [st |-> [st EXCEPT !.fCorrectedQnVector = New(copied)],
                 ret |-> FALSE, update |-> FALSE, abort |-> TRUE]
           ELSE IF BinContentValidated(Obj(st.fInputHistograms), bin)
           THEN [st |-> [st EXCEPT !.fCorrectedQnVector =
                           New(RecenterLoop(copied, current, Obj(st.fInputHistograms), bin,
                                            st.fApplyWidthEqualization,
                                            GetFirstHarmonic(current)))],
                 ret |-> TRUE, update |-> TRUE, abort |-> FALSE]
           ELSE [st |-> NotValidatedCase(st, copied, bin),
                 ret |-> TRUE, update |-> TRUE, abort |-> FALSE]

\* a faulty variant of CalibrationCase: the step in calibration passes the
\* current Qn vector through to its output
CalibrationCaseCopying(st, current, bin) ==
  [st |-> [st EXCEPT !.fCorrectedQnVector = New(QnSet(Obj(@), current))],
   ret |-> FALSE, update |-> FALSE, abort |-> FALSE]

\* a faulty variant of CalibrationCase: the step in calibration leaves its own
\* output as the current Qn vector
CalibrationCaseUpdating(st, current, bin) ==
  [st |-> st, ret |-> FALSE, update |-> TRUE, abort |-> FALSE]

\* a faulty variant of CalibrationCase: the return is missing and the code of the
\* applying states runs
CalibrationCaseFallsThrough(st, current, bin) == ApplyCase(st, current, bin)
\* the code of the state calibration
CalibrationCase(st, current, bin) ==
  [st |-> st, ret |-> FALSE, update |-> FALSE, abort |-> FALSE]

RecProcessCorrections(st, current, bin) ==
  IF st.fState = QCORRSTEP_calibration
  THEN CalibrationCase(st, current, bin)
  ELSE ApplyCase(st, current, bin)

\* a faulty variant of CollectLoop: the Y components are not filled
RECURSIVE CollectLoopNoY(_, _, _, _)
CollectLoopNoY(calib, input, bin, harmonic) ==
  IF harmonic = -1 THEN calib
  ELSE CollectLoopNoY(FillX(calib, harmonic, bin, input.fQnX[harmonic]),
                      input, bin, GetNextHarmonic(input, harmonic))
RECURSIVE CollectLoop(_, _, _, _)
CollectLoop(calib, input, bin, harmonic) ==
  IF harmonic = -1 THEN calib
  ELSE CollectLoop(FillY(FillX(calib, harmonic, bin, input.fQnX[harmonic]),
                         harmonic, bin, input.fQnY[harmonic]),
                   input, bin, GetNextHarmonic(input, harmonic))

\* a faulty variant of CollectCase: the corrected Qn vector is reset after the fills
CollectCaseClearing(st, input, bin) ==
  [st EXCEPT !.fCalibrationHistograms =
               New(CollectLoop(Obj(@), input, bin, GetFirstHarmonic(input))),
             !.fCorrectedQnVector = New(QnReset(Obj(@)))]
\* the input Qn vector has good quality: its components are filled
CollectCase(st, input, bin) ==
  [st EXCEPT !.fCalibrationHistograms =
               New(CollectLoop(Obj(@), input, bin, GetFirstHarmonic(input)))]

\* The outcome of ProcessDataCollection; input is a pointer to the vector
\* fInputQnVector refers to (NULL when it refers to none)
RecProcessDataCollection(st, input, bin) ==
  IF st.fState = QCORRSTEP_apply
  THEN [st |-> st, ret |-> TRUE, abort |-> FALSE]
  ELSE IF input = NULL
  THEN [st |-> st, ret |-> FALSE, abort |-> TRUE]
  ELSE IF ~Obj(input).fGoodQuality
  THEN [st |-> st, ret |-> (st.fState = QCORRSTEP_applyCollect), abort |-> FALSE]
  ELSE IF st.fCalibrationHistograms = NULL
  THEN [st |-> st, ret |-> FALSE, abort |-> TRUE]
  ELSE [st |-> CollectCase(st, Obj(input), bin),
        ret |-> (st.fState = QCORRSTEP_applyCollect), abort |-> FALSE]

\* fCorrectedQnVector is not NULL
RecClearCorrectionStep(st) ==
  [st EXCEPT !.fCorrectedQnVector = New(QnReset(Obj(@)))]

\* a faulty variant of RecReportUsage: the case applyCollect ends before the
\* applying list is reached
RecReportUsageNoFallthrough(st, calibrationList, applyList, name) ==
  CASE st.fState = QCORRSTEP_calibration ->
         [calibrationList |-> Append(calibrationList, name), applyList |-> applyList,
          ret |-> FALSE]
    [] st.fState = QCORRSTEP_applyCollect ->
         [calibrationList |-> Append(calibrationList, name), applyList |-> applyList,
          ret |-> TRUE]
    [] st.fState = QCORRSTEP_apply ->
         [calibrationList |-> calibrationList, applyList |-> Append(applyList, name),
          ret |-> TRUE]
RecReportUsage(st, calibrationList, applyList, name) ==
  CASE st.fState = QCORRSTEP_calibration ->
         [calibrationList |-> Append(calibrationList, name), applyList |-> applyList,
          ret |-> FALSE]
    [] st.fState = QCORRSTEP_applyCollect ->
         [calibrationList |-> Append(calibrationList, name),
          applyList |-> Append(applyList, name), ret |-> TRUE]
    [] st.fState = QCORRSTEP_apply ->
         [calibrationList |-> calibrationList, applyList |-> Append(applyList, name),
          ret |-> TRUE]

---------------------------------------------------------------------------
(* QnCorrectionsInputGainEqualization *)

QEQUAL_noEqualization == "noEqualization"
QEQUAL_averageEqualization == "averageEqualization"
QEQUAL_widthEqualization == "widthEqualization"

Channels == {0, 1}

\* Persisted channel multiplicity profiles of a previous pass, per event class
\* and channel id: the average and the spread of the channel and the weight of
\* its group.  Channel 0 of event class 1 is well measured; channel 1 of event
\* class 1 never fired; channel 0 of event class 2 has an average below the
\* significance threshold; channel 1 of event class 2 always gave the same
\* signal, so that its spread is zero.
GainFiles ==
  { [content |-> [k \in Bins \X Channels |->
                    CASE k = <<1, 0>> -> F(4)
                      [] k = <<1, 1>> -> F(0)
                      [] k = <<2, 0>> -> <<1, 10000000>>
                      [] k = <<2, 1>> -> F(4)],
     error |-> [k \in Bins \X Channels |->
                  CASE k = <<1, 0>> -> F(2)
                    [] k = <<1, 1>> -> F(1)
                    [] k = <<2, 0>> -> F(1)
                    [] k = <<2, 1>> -> F(0)],
     group |-> [k \in Bins \X Channels |-> F(k[2] + 1)]] }

NoGainFile == [content |-> [k \in Bins \X Channels |-> F(0)],
               error |-> [k \in Bins \X Channels |-> F(0)],
               group |-> [k \in Bins \X Channels |-> F(0)]]

GainInputLists == {NULL} \cup {New(f) : f \in GainFiles}

\* the hard coded group weights a channelized configuration may supply
HardCodedGroupWeights == [c \in Channels |-> F(c + 1)]

ProfileChannelizedIngressCtor == [attached |-> FALSE, file |-> NoGainFile]
ProfileChannelizedCtor == [k \in Bins \X Channels |-> [n |-> 0, sum |-> F(0)]]

GainCtor ==
  [ fState |-> InitialState,
    fInputHistograms |-> NULL,
    fCalibrationHistograms |-> NULL,
    fEqualizationMethod |-> QEQUAL_noEqualization,
    fA |-> F(0),
    fB |-> F(1),
    fUseChannelGroupsWeights |-> FALSE,
    fHardCodedWeights |-> NULL ]

\* fInputHistograms is not NULL
GainAttachInput(g, list, hardCodedGroupWeights) ==
  IF AttachHistogramsOk(list)
  THEN [st |-> [g EXCEPT !.fInputHistograms = New(AttachHistograms(Obj(@), list)),
                         !.fState = QCORRSTEP_applyCollect,
                         !.fHardCodedWeights = hardCodedGroupWeights],
        ret |-> TRUE]
  ELSE [st |-> g, ret |-> FALSE]

GainCreateSupportHistograms(g) ==
  [g EXCEPT !.fInputHistograms = New(ProfileChannelizedIngressCtor),
            !.fCalibrationHistograms = New(ProfileChannelizedCtor)]

\* QnCorrectionsProfileChannelizedIngress as fInputHistograms
GetBinContent(p, bin, id) == p.file.content[<<bin, id>>]
GetBinError(p, bin, id) == p.file.error[<<bin, id>>]
GetGrpBinContent(p, bin, id) == p.file.group[<<bin, id>>]

\* QnCorrectionsProfileChannelized as fCalibrationHistograms
Fill(c, bin, id, weight) ==
  [c EXCEPT ![<<bin, id>>].n = @ + 1, ![<<bin, id>>].sum = FAdd(@, weight)]

\* QnCorrectionsDataVectorChannelized
DataVectorChannelizedCtor(channelId, phi, weight) ==
  [fPhi |-> phi, fId |-> channelId, fWeight |-> weight, fEqualizedWeight |-> weight]
GetId(dataVector) == dataVector.fId
Weight(dataVector) == dataVector.fWeight
SetEqualizedWeight(dataVector, weight) == [dataVector EXCEPT !.fEqualizedWeight = weight]

\* a faulty variant of GainCollectLoop: the first data vector only
GainCollectLoopFirstOnly(calib, inputDataBank, bin, ixData) ==
  IF ixData > Len(inputDataBank) \/ ixData > 1 THEN calib
  ELSE Fill(calib, bin, GetId(inputDataBank[ixData]), Weight(inputDataBank[ixData]))

\* the loop that collects the data vectors from ixData on
RECURSIVE GainCollectLoop(_, _, _, _)
GainCollectLoop(calib, inputDataBank, bin, ixData) ==
  IF ixData > Len(inputDataBank) THEN calib
  ELSE GainCollectLoop(
         Fill(calib, bin, GetId(inputDataBank[ixData]), Weight(inputDataBank[ixData])),
         inputDataBank, bin, ixData + 1)

GainCollect(g, inputDataBank, bin) ==
  [g EXCEPT !.fCalibrationHistograms = New(GainCollectLoop(Obj(@), inputDataBank, bin, 1))]

\* a faulty variant of GainAverage: the average of the pass under way
GainAverageOfThisPass(g, bin, id) ==
  LET c == Obj(g.fCalibrationHistograms)[<<bin, id>>]
  IN  FDiv(c.sum, F(c.n))

GainAverage(g, bin, id) == GetBinContent(Obj(g.fInputHistograms), bin, id)

GainWidth(g, bin, id) == GetBinError(Obj(g.fInputHistograms), bin, id)

GroupWeight(g, bin, id) ==
  IF g.fUseChannelGroupsWeights THEN GetGrpBinContent(Obj(g.fInputHistograms), bin, id)
  ELSE IF g.fHardCodedWeights # NULL THEN Obj(g.fHardCodedWeights)[id]
  ELSE F(1)

NoEqualizationCase(g, dataVector, bin) ==
  SetEqualizedWeight(dataVector, Weight(dataVector))

\* a faulty variant of AverageEqualizationCase: no significance test
AverageEqualizationCaseUnguarded(g, dataVector, bin) ==
  SetEqualizedWeight(dataVector,
    FMul(FDiv(Weight(dataVector), GainAverage(g, bin, GetId(dataVector))),
         GroupWeight(g, bin, GetId(dataVector))))

AverageEqualizationCase(g, dataVector, bin) ==
  LET average == GainAverage(g, bin, GetId(dataVector))
      groupweight == GroupWeight(g, bin, GetId(dataVector))
  IN  IF FLess(fMinimumSignificantValue, average)
      THEN SetEqualizedWeight(dataVector, FMul(FDiv(Weight(dataVector), average), groupweight))
      ELSE SetEqualizedWeight(dataVector, F(0))

WidthEqualizationCase(g, dataVector, bin) ==
  LET average == GainAverage(g, bin, GetId(dataVector))
      width == GainWidth(g, bin, GetId(dataVector))
      groupweight == GroupWeight(g, bin, GetId(dataVector))
  IN  IF FLess(fMinimumSignificantValue, average)
      THEN SetEqualizedWeight(dataVector,
             FMul(FAdd(g.fA, FDiv(FMul(g.fB, FSub(Weight(dataVector), average)), width)),
                  groupweight))
      ELSE SetEqualizedWeight(dataVector, F(0))

\* case QCORRSTEP_apply: the data vectors with their equalized weights stored
GainApplyCase(g, inputDataBank, bin) ==
  [ixData \in DOMAIN inputDataBank |->
     CASE g.fEqualizationMethod = QEQUAL_noEqualization
            -> NoEqualizationCase(g, inputDataBank[ixData], bin)
       [] g.fEqualizationMethod = QEQUAL_averageEqualization
            -> AverageEqualizationCase(g, inputDataBank[ixData], bin)
       [] g.fEqualizationMethod = QEQUAL_widthEqualization
            -> WidthEqualizationCase(g, inputDataBank[ixData], bin)]

\* case QCORRSTEP_applyCollect: it collects and falls through to the apply case
GainApplyCollectCase(g, inputDataBank, bin) ==
  LET collected == GainCollect(g, inputDataBank, bin)
  IN  [st |-> collected, bank |-> GainApplyCase(collected, inputDataBank, bin), ret |-> TRUE]

\* a faulty variant of GainCalibrationCase: it falls through as well
GainCalibrationCaseFallsThrough(g, inputDataBank, bin) ==
  GainApplyCollectCase(g, inputDataBank, bin)

\* case QCORRSTEP_calibration: it collects and returns
GainCalibrationCase(g, inputDataBank, bin) ==
  [st |-> GainCollect(g, inputDataBank, bin), bank |-> inputDataBank, ret |-> FALSE]

\* Process: the step, the input data bank and the return value afterwards
GainProcess(g, inputDataBank, bin) ==
  CASE g.fState = QCORRSTEP_calibration -> GainCalibrationCase(g, inputDataBank, bin)
    [] g.fState = QCORRSTEP_applyCollect -> GainApplyCollectCase(g, inputDataBank, bin)
    [] g.fState = QCORRSTEP_apply
         -> [st |-> g, bank |-> GainApplyCase(g, inputDataBank, bin), ret |-> TRUE]

---------------------------------------------------------------------------
(* State shared by the specifications *)

szCorrectionName == "Recentering and width equalization"

NoOp == [op |-> "none", step |-> 0, ret |-> FALSE, list |-> NULL,
         calibrationList |-> <<>>, applyList |-> <<>>, harmonic |-> 0, Qn |-> NULL,
         before |-> NULL]

Op(name, s, ret) == [NoOp EXCEPT !.op = name, !.step = s, !.ret = ret]

Steps == DOMAIN steps

Range(seq) == {seq[i] : i \in DOMAIN seq}

NoEvent == [n |-> 0, collected |-> 0, applied |-> 0, cleared |-> 0]

---------------------------------------------------------------------------
(* Configuration time: SpecSetup.  The state after construction of a       *)
(* configuration and of its steps, and the configuration operations of the *)
(* steps in any order.                                                     *)

TrackConfigurations ==
  [ kind : {"tracks"}, nSteps : {2}, nNoOfHarmonics : {2},
    harmonicMap : {NULL, <<2, 4>>}, widthEqualization : BOOLEAN, nveQA : {FALSE},
    hardCodedGroupWeights : {NULL} ]

ChannelConfigurations ==
  [ kind : {"channels"}, nSteps : {0}, nNoOfHarmonics : {2},
    harmonicMap : {NULL}, widthEqualization : {FALSE}, nveQA : {FALSE},
    hardCodedGroupWeights : {NULL, New(HardCodedGroupWeights)} ]

Constructed(c) ==
  /\ conf = c
  /\ plain = QnVectorCtor(c.nNoOfHarmonics, c.harmonicMap)
  /\ cur = 0
  /\ evClass = 1
  /\ event = NoEvent
  /\ aborted = FALSE
  /\ last = NoOp
  /\ bank = <<>>
  /\ qn = NULL

InitSetup ==
  \E c \in TrackConfigurations \cup ChannelConfigurations :
    /\ Constructed(c)
    /\ steps = [s \in 1 .. c.nSteps |->
                  [RecenteringCtor EXCEPT !.fApplyWidthEqualization = c.widthEqualization]]
    /\ gain = IF c.kind = "channels" THEN New(GainCtor) ELSE NULL

\* The step leaves applyCollect once no further recalibration is desired
EnterApply(s) ==
  /\ ~aborted
  /\ IF s = 0
     THEN /\ gain # NULL
          /\ Obj(gain).fState = QCORRSTEP_applyCollect
          /\ gain' = New([Obj(gain) EXCEPT !.fState = QCORRSTEP_apply])
          /\ UNCHANGED steps
     ELSE /\ s \in Steps
          /\ steps[s].fState = QCORRSTEP_applyCollect
          /\ steps' = [steps EXCEPT ![s].fState = QCORRSTEP_apply]
          /\ UNCHANGED gain
  /\ last' = Op("EnterApply", s, FALSE)
  /\ UNCHANGED <<plain, cur, evClass, conf, event, aborted, bank, qn>>

CreateSupportDataStructures(s) ==
  /\ ~aborted
  /\ s \in Steps
  /\ steps[s].fCorrectedQnVector = NULL
  /\ steps' = [steps EXCEPT ![s] =
                 RecCreateSupportDataStructures(@, GetNoOfHarmonics(plain),
                   GetHarmonicsMap(plain), GetPreviousCorrectedQnVector(s))]
  /\ last' = Op("CreateSupportDataStructures", s, FALSE)
  /\ UNCHANGED <<plain, cur, evClass, gain, conf, event, aborted, bank, qn>>

CreateSupportHistograms(s) ==
  /\ ~aborted
  /\ s \in Steps
  /\ steps' = [steps EXCEPT ![s] = RecCreateSupportHistograms(@, ConfHarmonics)]
  /\ last' = Op("CreateSupportHistograms", s, TRUE)
  /\ UNCHANGED <<plain, cur, evClass, gain, conf, event, aborted, bank, qn>>

\* With fInputHistograms NULL the call dereferences a null pointer
AttachInput(s, list) ==
  /\ ~aborted
  /\ s \in Steps
  /\ IF steps[s].fInputHistograms = NULL
     THEN /\ aborted' = TRUE
          /\ last' = [Op("AttachInput", s, FALSE) EXCEPT !.list = list]
          /\ UNCHANGED steps
     ELSE LET r == RecAttachInput(steps[s], list)
          IN  /\ steps' = [steps EXCEPT ![s] = r.st]
              /\ last' = [Op("AttachInput", s, r.ret) EXCEPT !.list = list]
              /\ UNCHANGED aborted
  /\ UNCHANGED <<plain, cur, evClass, gain, conf, event, bank, qn>>

CreateNveQAHistograms(s) ==
  /\ ~aborted
  /\ s \in Steps
  /\ steps' = [steps EXCEPT ![s] = RecCreateNveQAHistograms(@)]
  /\ last' = Op("CreateNveQAHistograms", s, TRUE)
  /\ UNCHANGED <<plain, cur, evClass, gain, conf, event, aborted, bank, qn>>

ReportUsage(s) ==
  /\ ~aborted
  /\ s \in Steps
  /\ LET r == RecReportUsage(steps[s], <<>>, <<>>, szCorrectionName)
     IN  last' = [Op("ReportUsage", s, r.ret) EXCEPT
                    !.calibrationList = r.calibrationList, !.applyList = r.applyList]
  /\ UNCHANGED <<plain, cur, evClass, steps, gain, conf, event, aborted, bank, qn>>

GainCreateSupportHistogramsOp ==
  /\ ~aborted
  /\ gain # NULL
  /\ gain' = New(GainCreateSupportHistograms(Obj(gain)))
  /\ last' = Op("GainCreateSupportHistograms", 0, TRUE)
  /\ UNCHANGED <<plain, cur, evClass, steps, conf, event, aborted, bank, qn>>

\* With fInputHistograms NULL the call dereferences a null pointer
GainAttachInputOp(list) ==
  /\ ~aborted
  /\ gain # NULL
  /\ IF Obj(gain).fInputHistograms = NULL
     THEN /\ aborted' = TRUE
          /\ last' = [Op("GainAttachInput", 0, FALSE) EXCEPT !.list = list]
          /\ UNCHANGED gain
     ELSE LET r == GainAttachInput(Obj(gain), list, conf.hardCodedGroupWeights)
          IN  /\ gain' = New(r.st)
              /\ last' = [Op("GainAttachInput", 0, r.ret) EXCEPT !.list = list]
              /\ UNCHANGED aborted
  /\ UNCHANGED <<plain, cur, evClass, steps, conf, event, bank, qn>>

NextSetup ==
  \/ \E s \in 0 .. MaxSteps : EnterApply(s)
  \/ \E s \in 1 .. MaxSteps : CreateSupportDataStructures(s)
  \/ \E s \in 1 .. MaxSteps : CreateSupportHistograms(s)
  \/ \E s \in 1 .. MaxSteps, list \in InputLists : AttachInput(s, list)
  \/ \E s \in 1 .. MaxSteps : CreateNveQAHistograms(s)
  \/ \E s \in 1 .. MaxSteps : ReportUsage(s)
  \/ GainCreateSupportHistogramsOp
  \/ \E list \in GainInputLists : GainAttachInputOp(list)

SpecSetup == InitSetup /\ [][NextSetup]_vars

---------------------------------------------------------------------------
(* The event loop: Spec.  A tracking configuration whose chain of          *)
(* Recentering steps has been configured, processing events.               *)

\* How a step of the chain was configured before the first event: left in
\* calibration (nothing to attach), or attached to the histograms of a previous
\* pass, or attached and then taken to apply
StepProfiles == {QCORRSTEP_calibration, QCORRSTEP_applyCollect, QCORRSTEP_apply}

\* Two configurations: plain recentering with the QA histogram of the not validated
\* bins, and recentering with width equalization without QA histograms.  The width
\* acts on validated bins only and the QA histogram on not validated bins only.
EventConfigurations ==
  { [ kind |-> "tracks", nSteps |-> MaxSteps, nNoOfHarmonics |-> 2,
      harmonicMap |-> <<2, 4>>, widthEqualization |-> w, nveQA |-> ~w,
      hardCodedGroupWeights |-> NULL ] : w \in BOOLEAN }

\* step s after CreateSupportDataStructures, CreateSupportHistograms, the optional
\* CreateNveQAHistograms, AttachInput and the move to apply its profile asks for
Configured(c, s, profile, previous) ==
  LET s0 == [RecenteringCtor EXCEPT !.fApplyWidthEqualization = c.widthEqualization]
      pl == QnVectorCtor(c.nNoOfHarmonics, c.harmonicMap)
      s1 == RecCreateSupportDataStructures(s0, GetNoOfHarmonics(pl), GetHarmonicsMap(pl),
                                           previous)
      s2 == RecCreateSupportHistograms(s1, ActiveHarmonics(pl))
      s3 == IF c.nveQA THEN RecCreateNveQAHistograms(s2) ELSE s2
      s4 == IF profile = QCORRSTEP_calibration THEN s3
            ELSE RecAttachInput(s3, New(CHOOSE f \in PrevPassFiles : TRUE)).st
  IN  IF profile = QCORRSTEP_apply THEN [s4 EXCEPT !.fState = QCORRSTEP_apply] ELSE s4

Init ==
  \E c \in EventConfigurations, profiles \in [1 .. MaxSteps -> StepProfiles] :
    /\ Constructed(c)
    /\ steps = [s \in 1 .. c.nSteps |-> Configured(c, s, profiles[s], s - 1)]
    /\ gain = NULL

\* the events: the components the active harmonics of the plain Qn vector get, in
\* ascending order of harmonic, its quality, and the event class
PlainEvents ==
  { [q |-> <<(<<5, 5>>), (<<1, 3>>)>>, good |-> TRUE, bin |-> 1],
    [q |-> <<(<<1, 3>>), (<<5, 5>>)>>, good |-> TRUE, bin |-> 2],
    [q |-> <<(<<5, 5>>), (<<1, 3>>)>>, good |-> FALSE, bin |-> 1] }

\* the components of the event for harmonic h: those of its rank among the
\* active harmonics, zero for a harmonic that is not active
EventComponent(active, e, h, xy) ==
  IF h \in active THEN F(e.q[Cardinality({k \in active : k <= h})][xy]) ELSE F(0)

\* A new event, once the previous one has been processed by every step: the plain
\* Qn vector is built from the data of the event and is the current Qn vector the
\* chain starts from
NewEvent(e) ==
  /\ ~aborted
  /\ conf.kind = "tracks"
  /\ event.n < MaxEvents
  /\ event.n > 0 => event.collected = conf.nSteps /\ event.applied = conf.nSteps
  /\ LET active == ActiveHarmonics(plain)
     IN  plain' = [plain EXCEPT
                     !.fQnX = [h \in HarmonicIndex |-> EventComponent(active, e, h, 1)],
                     !.fQnY = [h \in HarmonicIndex |-> EventComponent(active, e, h, 2)],
                     !.fGoodQuality = e.good]
  /\ cur' = 0
  /\ evClass' = e.bin
  /\ event' = [n |-> event.n + 1, collected |-> 0, applied |-> 0, cleared |-> 0]
  /\ last' = Op("NewEvent", 0, FALSE)
  /\ UNCHANGED <<steps, gain, conf, aborted, bank, qn>>

\* a faulty variant of InputQnVector: the current Qn vector is read
InputQnVectorCurrent(s) == New(GetCurrentQnVector)
\* the vector fInputQnVector of step s points to
InputQnVector(s) ==
  IF steps[s].fInputQnVector = -1 THEN NULL ELSE New(Vec(steps[s].fInputQnVector))

\* The steps of the chain collect in list order, once per event
ProcessDataCollection(s) ==
  /\ ~aborted
  /\ s \in Steps
  /\ event.n > 0
  /\ s = event.collected + 1
  /\ LET r == RecProcessDataCollection(steps[s], InputQnVector(s), evClass)
     IN  /\ steps' = [steps EXCEPT ![s] = r.st]
         /\ aborted' = r.abort
         /\ last' = Op("ProcessDataCollection", s, r.ret)
  /\ event' = [event EXCEPT !.collected = s]
  /\ UNCHANGED <<plain, cur, evClass, gain, conf, bank, qn>>

\* The steps of the chain apply in list order, once per event
ProcessCorrections(s) ==
  /\ ~aborted
  /\ s \in Steps
  /\ event.n > 0
  /\ s = event.applied + 1
  /\ LET r == RecProcessCorrections(steps[s], GetCurrentQnVector, evClass)
     IN  /\ steps' = [steps EXCEPT ![s] = r.st]
         /\ cur' = IF r.update THEN s ELSE cur
         /\ aborted' = r.abort
         /\ last' = Op("ProcessCorrections", s, r.ret)
  /\ event' = [event EXCEPT !.applied = s]
  /\ UNCHANGED <<plain, evClass, gain, conf, bank, qn>>

\* At the end of the event the configuration clears every step of the chain
ClearCorrectionSteps ==
  /\ ~aborted
  /\ conf.kind = "tracks"
  /\ event.n > 0
  /\ event.collected = conf.nSteps /\ event.applied = conf.nSteps
  /\ event.cleared = 0
  /\ steps' = [s \in Steps |-> RecClearCorrectionStep(steps[s])]
  /\ event' = [event EXCEPT !.cleared = 1]
  /\ last' = Op("ClearCorrectionStep", 0, FALSE)
  /\ UNCHANGED <<plain, cur, evClass, gain, conf, aborted, bank, qn>>

Next ==
  \/ \E e \in PlainEvents : NewEvent(e)
  \/ \E s \in 1 .. MaxSteps : ProcessDataCollection(s)
  \/ \E s \in 1 .. MaxSteps : ProcessCorrections(s)
  \/ ClearCorrectionSteps

Spec == Init /\ [][Next]_vars

---------------------------------------------------------------------------
(* The Qn vector on its own: SpecQn.  The repository holds two revisions   *)
(* of QnCorrectionsQnVector and QnCorrectionsQnVectorBuild, the one of     *)
(* QnCorrectionsDataVector.cxx (with a quality flag) and the one of        *)
(* QnCorrectionsQnVectors.cxx (without).  A behaviour follows one vector   *)
(* of one revision and runs its member functions in any order.             *)

\* the number of member function calls of a behaviour
MaxOps == 3

DataVector_cxx == "QnCorrectionsDataVector.cxx"
QnVectors_cxx == "QnCorrectionsQnVectors.cxx"

\* Length, QxNorm and QyNorm read the components as they are when called
Length(v, h) == Sqrt(FAdd(FMul(v.fQnX[h], v.fQnX[h]), FMul(v.fQnY[h], v.fQnY[h])))
QxNorm(v, h) == FDiv(v.fQnX[h], Length(v, h))
QyNorm(v, h) == FDiv(v.fQnY[h], Length(v, h))

\* a loop for (h = 1; h < fHighestHarmonic + 1; h++) that gives the harmonics
\* passing its test the components X[h] and Y[h]
ForHarmonics(v, passing, X, Y) ==
  [v EXCEPT
     !.fQnX = [h \in HarmonicIndex |->
                 IF h \in 1 .. v.fHighestHarmonic /\ h \in passing THEN X[h] ELSE v.fQnX[h]],
     !.fQnY = [h \in HarmonicIndex |->
                 IF h \in 1 .. v.fHighestHarmonic /\ h \in passing THEN Y[h] ELSE v.fQnY[h]]]

\* the loop of Normalize: fQnX[h] is assigned before QyNorm(h) is evaluated
NormalizeLoop(v, passing) ==
  ForHarmonics(v, passing,
    [h \in HarmonicIndex |-> QxNorm(v, h)],
    [h \in HarmonicIndex |-> QyNorm([v EXCEPT !.fQnX[h] = QxNorm(v, h)], h)])

\* the loop of Add: fQnX[h] += Qn->Qx(h)
AddLoop(v, passing, Qn) ==
  ForHarmonics(v, passing,
    [h \in HarmonicIndex |-> FAdd(v.fQnX[h], Qn.fQnX[h])],
    [h \in HarmonicIndex |-> FAdd(v.fQnY[h], Qn.fQnY[h])])

\* the loop fQnX[h] = fQnX[h] / value
DivideLoop(v, passing, value) ==
  ForHarmonics(v, passing,
    [h \in HarmonicIndex |-> FDiv(v.fQnX[h], value)],
    [h \in HarmonicIndex |-> FDiv(v.fQnY[h], value)])

\* the loop fQnX[h] += fQnX[h] / value
AddDividedLoop(v, passing, value) ==
  ForHarmonics(v, passing,
    [h \in HarmonicIndex |-> FAdd(v.fQnX[h], FDiv(v.fQnX[h], value))],
    [h \in HarmonicIndex |-> FAdd(v.fQnY[h], FDiv(v.fQnY[h], value))])

(* QnCorrectionsDataVector.cxx *)

QnVectorBuildCtor(nNoOfHarmonics, harmonicMap) ==
  LET v == QnVectorCtor(nNoOfHarmonics, harmonicMap)
  IN  [ fQnX |-> v.fQnX, fQnY |-> v.fQnY, fHighestHarmonic |-> v.fHighestHarmonic,
        fHarmonicMask |-> v.fHarmonicMask, fGoodQuality |-> v.fGoodQuality,
        fSumW |-> F(0), fN |-> 0 ]

ActivateHarmonicIsFatal(harmonic) == nMaxHarmonicNumberSupported < harmonic

QnActivateHarmonic(v, harmonic) ==
  IF v.fHighestHarmonic < harmonic
  THEN [v EXCEPT !.fHighestHarmonic = harmonic,
                 !.fHarmonicMask = BitOr(@, harmonicNumberMask(harmonic)),
                 !.fQnX[harmonic] = F(0),
                 !.fQnY[harmonic] = F(0)]
  ELSE IF IsActive(v, harmonic) THEN v
  ELSE [v EXCEPT !.fHarmonicMask = BitOr(@, harmonicNumberMask(harmonic)),
                 !.fQnX[harmonic] = F(0),
                 !.fQnY[harmonic] = F(0)]

\* the harmonics passing (fHarmonicMask & harmonicNumberMask[h]) == harmonicNumberMask[h]
Passing(v) == {h \in HarmonicIndex : IsActive(v, h)}

QnNormalize(v) == NormalizeLoop(v, Passing(v))

BuildSet(v, Qn) ==
  IF SetIsFatal(v, Qn) THEN v
  ELSE [QnSet(v, Qn) EXCEPT !.fSumW = Qn.fSumW, !.fN = Qn.fN]

BuildAdd(v, Qn) ==
  [AddLoop(v, Passing(v), Qn)
     EXCEPT !.fSumW = FAdd(@, Qn.fSumW), !.fN = @ + Qn.fN]

BuildNormalizeQoverM(v) ==
  IF FLess(v.fSumW, fMinimumSignificantValue) THEN v
  ELSE DivideLoop(v, Passing(v), v.fSumW)

BuildNormalizeQoverSquareRootOfM(v) ==
  IF FLess(v.fSumW, fMinimumSignificantValue) THEN v
  ELSE AddDividedLoop(v, Passing(v), Sqrt(v.fSumW))

BuildReset(v) == [QnReset(v) EXCEPT !.fSumW = F(0), !.fN = 0]

(* QnCorrectionsQnVectors.cxx *)

QnVectorCtor_QnVectors(nNoOfHarmonics, harmonicMap) ==
  [ fQnX |-> ZeroArray,
    fQnY |-> ZeroArray,
    fHighestHarmonic |-> IF harmonicMap # NULL THEN harmonicMap[nNoOfHarmonics]
                         ELSE nNoOfHarmonics,
    fHarmonicMask |-> CtorMask(0, 0, 0, nNoOfHarmonics, harmonicMap) ]

QnVectorBuildCtor_QnVectors(nNoOfHarmonics, harmonicMap) ==
  LET v == QnVectorCtor_QnVectors(nNoOfHarmonics, harmonicMap)
  IN  [ fQnX |-> v.fQnX, fQnY |-> v.fQnY, fHighestHarmonic |-> v.fHighestHarmonic,
        fHarmonicMask |-> v.fHarmonicMask, fSumW |-> F(0), fN |-> 0 ]

\* fHarmonicMask & harmonicNumberMask[h] == harmonicNumberMask[h]: the
\* comparison binds tighter than the &, so that the mask is tested against
\* the truth value of the comparison
MaskTest_QnVectors(v, h) ==
  BitAnd(v.fHarmonicMask,
         IF harmonicNumberMask(h) = harmonicNumberMask(h) THEN 1 ELSE 0) # 0

\* the harmonics passing that test
Passing_QnVectors(v) == {h \in HarmonicIndex : MaskTest_QnVectors(v, h)}

QnActivateHarmonic_QnVectors(v, harmonic) ==
  IF v.fHighestHarmonic < harmonic
  THEN [v EXCEPT !.fHighestHarmonic = harmonic,
                 !.fHarmonicMask = BitOr(@, harmonicNumberMask(harmonic)),
                 !.fQnX[harmonic] = F(0),
                 !.fQnY[harmonic] = F(0)]
  ELSE IF MaskTest_QnVectors(v, harmonic) THEN v
  ELSE [v EXCEPT !.fHarmonicMask = BitOr(@, harmonicNumberMask(harmonic)),
                 !.fQnX[harmonic] = F(0),
                 !.fQnY[harmonic] = F(0)]

QnSet_QnVectors(v, Qn) ==
  [v EXCEPT !.fQnX = Qn.fQnX, !.fQnY = Qn.fQnY,
            !.fHighestHarmonic = Qn.fHighestHarmonic,
            !.fHarmonicMask = Qn.fHarmonicMask]

QnNormalize_QnVectors(v) == NormalizeLoop(v, Passing_QnVectors(v))

QnReset_QnVectors(v) == [v EXCEPT !.fQnX = ZeroArray, !.fQnY = ZeroArray]

BuildSet_QnVectors(v, Qn) ==
  [QnSet_QnVectors(v, Qn) EXCEPT !.fSumW = Qn.fSumW, !.fN = Qn.fN]

BuildAdd_QnVectors(v, Qn) ==
  [AddLoop(v, Passing_QnVectors(v), Qn)
     EXCEPT !.fSumW = FAdd(@, Qn.fSumW), !.fN = @ + Qn.fN]

BuildNormalizeQoverM_QnVectors(v) ==
  IF FLess(v.fSumW, fMinimumSignificantValue)
  THEN AddDividedLoop(v, Passing_QnVectors(v), v.fSumW)
  ELSE v

BuildNormalizeQoverSquareRootOfM_QnVectors(v) ==
  IF FLess(v.fSumW, fMinimumSignificantValue)
  THEN AddDividedLoop(v, Passing_QnVectors(v), Sqrt(v.fSumW))
  ELSE v

BuildReset_QnVectors(v) == [QnReset_QnVectors(v) EXCEPT !.fSumW = F(0), !.fN = 0]

---------------------------------------------------------------------------

(* SpecQn: the member functions of one Qn vector, in any order *)

\* the harmonic structures a vector is constructed with: the number of
\* harmonics and the harmonic map
QnStructures == {<<1, NULL>>, <<2, NULL>>, <<2, <<1, 3>>>>}

\* the harmonics asked of ActivateHarmonic, one of them beyond the supported range
QnHarmonics == {1, 2, 3, nMaxHarmonicNumberSupported + 1}

\* the vector the constructor of the revision and of the class yields
Constructs(file, build, s) ==
  IF file = DataVector_cxx
  THEN IF build THEN QnVectorBuildCtor(s[1], s[2]) ELSE QnVectorCtor(s[1], s[2])
  ELSE IF build THEN QnVectorBuildCtor_QnVectors(s[1], s[2])
       ELSE QnVectorCtor_QnVectors(s[1], s[2])

\* a vector its owner has filled: (3, 4) in every active harmonic, of good
\* quality, and for a build vector two entries of weight 2
Filled(file, build, s) ==
  LET v == Constructs(file, build, s)
      active == ActiveHarmonics(v)
      w == [v EXCEPT !.fQnX = [h \in HarmonicIndex |-> IF h \in active THEN F(3) ELSE F(0)],
                     !.fQnY = [h \in HarmonicIndex |-> IF h \in active THEN F(4) ELSE F(0)]]
      g == IF file = DataVector_cxx THEN SetGood(w, TRUE) ELSE w
  IN  IF build THEN [g EXCEPT !.fSumW = F(4), !.fN = 2] ELSE g

\* the vectors handed to Set and to Add
OtherVectors(file, build) ==
  {Constructs(file, build, s) : s \in QnStructures}
    \cup {Filled(file, build, s) : s \in QnStructures}

InitQn ==
  /\ \E file \in {DataVector_cxx, QnVectors_cxx}, build \in BOOLEAN, s \in QnStructures :
       qn = [file |-> file, build |-> build, v |-> Constructs(file, build, s), ops |-> 0]
  /\ plain = NULL
  /\ cur = -1
  /\ evClass = 1
  /\ steps = <<>>
  /\ gain = NULL
  /\ conf = [kind |-> "none"]
  /\ event = NoEvent
  /\ aborted = FALSE
  /\ last = NoOp
  /\ bank = <<>>

CanCall == ~aborted /\ qn.ops < MaxOps

\* the member function op has run and left the vector as v
Called(op, v, fatal, harmonic, Qn) ==
  /\ qn' = [qn EXCEPT !.v = v, !.ops = @ + 1]
  /\ aborted' = fatal
  /\ last' = [Op(op, 0, FALSE) EXCEPT !.harmonic = harmonic, !.Qn = Qn, !.before = New(qn.v)]
  /\ UNCHANGED <<plain, cur, evClass, steps, gain, conf, event, bank>>

ActivateHarmonic(harmonic) ==
  /\ CanCall
  /\ IF ActivateHarmonicIsFatal(harmonic)
     THEN Called("ActivateHarmonic", qn.v, TRUE, harmonic, NULL)
     ELSE Called("ActivateHarmonic",
                 IF qn.file = DataVector_cxx THEN QnActivateHarmonic(qn.v, harmonic)
                 ELSE QnActivateHarmonic_QnVectors(qn.v, harmonic),
                 FALSE, harmonic, NULL)

Set(Qn) ==
  /\ CanCall
  /\ IF qn.file = DataVector_cxx
     THEN Called("Set", IF qn.build THEN BuildSet(qn.v, Qn) ELSE QnSet(qn.v, Qn),
                 SetIsFatal(qn.v, Qn), 0, New(Qn))
     ELSE Called("Set",
                 IF qn.build THEN BuildSet_QnVectors(qn.v, Qn) ELSE QnSet_QnVectors(qn.v, Qn),
                 FALSE, 0, New(Qn))

Reset ==
  /\ CanCall
  /\ Called("Reset",
            IF qn.file = DataVector_cxx
            THEN (IF qn.build THEN BuildReset(qn.v) ELSE QnReset(qn.v))
            ELSE (IF qn.build THEN BuildReset_QnVectors(qn.v) ELSE QnReset_QnVectors(qn.v)),
            FALSE, 0, NULL)

Normalize ==
  /\ CanCall
  /\ Called("Normalize",
            IF qn.file = DataVector_cxx THEN QnNormalize(qn.v)
            ELSE QnNormalize_QnVectors(qn.v),
            FALSE, 0, NULL)

Add(Qn) ==
  /\ CanCall
  /\ qn.build
  /\ Called("Add",
            IF qn.file = DataVector_cxx THEN BuildAdd(qn.v, Qn)
            ELSE BuildAdd_QnVectors(qn.v, Qn),
            FALSE, 0, New(Qn))

NormalizeQoverM ==
  /\ CanCall
  /\ qn.build
  /\ Called("NormalizeQoverM",
            IF qn.file = DataVector_cxx THEN BuildNormalizeQoverM(qn.v)
            ELSE BuildNormalizeQoverM_QnVectors(qn.v),
            FALSE, 0, NULL)

NormalizeQoverSquareRootOfM ==
  /\ CanCall
  /\ qn.build
  /\ Called("NormalizeQoverSquareRootOfM",
            IF qn.file = DataVector_cxx THEN BuildNormalizeQoverSquareRootOfM(qn.v)
            ELSE BuildNormalizeQoverSquareRootOfM_QnVectors(qn.v),
            FALSE, 0, NULL)

\* the component handed to SetQx and SetQy
QnComponents == {F(5)}

\* SetQx of a build vector is the forbidden function of both revisions;
\* the plain vector stores the component
CallSetQx(harmonic, x) ==
  /\ CanCall
  /\ IF qn.build THEN Called("SetQx", qn.v, TRUE, harmonic, NULL)
     ELSE Called("SetQx", SetQx(qn.v, harmonic, x), FALSE, harmonic, NULL)

CallSetQy(harmonic, y) ==
  /\ CanCall
  /\ IF qn.build THEN Called("SetQy", qn.v, TRUE, harmonic, NULL)
     ELSE Called("SetQy", SetQy(qn.v, harmonic, y), FALSE, harmonic, NULL)

NextQn ==
  \/ \E harmonic \in QnHarmonics : ActivateHarmonic(harmonic)
  \/ \E Qn \in OtherVectors(qn.file, qn.build) : Set(Qn)
  \/ Reset
  \/ Normalize
  \/ \E Qn \in OtherVectors(qn.file, qn.build) : Add(Qn)
  \/ NormalizeQoverM
  \/ NormalizeQoverSquareRootOfM
  \/ \E x \in QnComponents : CallSetQx(1, x)
  \/ \E y \in QnComponents : CallSetQy(1, y)

SpecQn == InitQn /\ [][NextQn]_vars

---------------------------------------------------------------------------

(* SpecGain: the event loop of a channelized configuration.  The gain      *)
(* equalization step has been configured before the first event; per event *)
(* the input data bank is filled and Process runs once.                    *)

\* the settings of the step: its state at the first event, the equalization
\* method, the use of the group weights of the store, and the parameters A and B
GainSettings ==
  [ state : StepProfiles,
    method : {QEQUAL_noEqualization, QEQUAL_averageEqualization, QEQUAL_widthEqualization},
    useChannelGroupsWeights : BOOLEAN,
    AB : {<<F(0), F(1)>>, <<F(1), F(2)>>} ]

\* the step after its setters, CreateSupportHistograms, AttachInput and the
\* move to apply its settings ask for
GainConfigured(c, settings) ==
  LET g0 == [GainCtor EXCEPT !.fEqualizationMethod = settings.method,
                             !.fA = settings.AB[1],
                             !.fB = settings.AB[2],
                             !.fUseChannelGroupsWeights = settings.useChannelGroupsWeights]
      g1 == GainCreateSupportHistograms(g0)
      g2 == IF settings.state = QCORRSTEP_calibration THEN g1
            ELSE GainAttachInput(g1, New(CHOOSE f \in GainFiles : TRUE),
                                 c.hardCodedGroupWeights).st
  IN  IF settings.state = QCORRSTEP_apply THEN [g2 EXCEPT !.fState = QCORRSTEP_apply] ELSE g2

InitGain ==
  \E c \in ChannelConfigurations, settings \in GainSettings :
    /\ Constructed(c)
    /\ steps = <<>>
    /\ gain = New(GainConfigured(c, settings))

\* the input data banks of the events: no data vector, one, two of two
\* channels, two of the same channel
InputDataBanks ==
  { <<>>,
    <<DataVectorChannelizedCtor(0, F(0), F(2))>>,
    <<DataVectorChannelizedCtor(0, F(0), F(2)), DataVectorChannelizedCtor(1, F(1), F(4))>>,
    <<DataVectorChannelizedCtor(1, F(0), F(4)), DataVectorChannelizedCtor(1, F(1), F(2))>> }

\* A new event, once Process has run on the previous one: the input data bank
\* holds the data vectors of the event
NewInputData(inputDataBank, bin) ==
  /\ ~aborted
  /\ conf.kind = "channels"
  /\ event.n < MaxEvents
  /\ event.n > 0 => event.applied = 1
  /\ bank' = inputDataBank
  /\ evClass' = bin
  /\ event' = [n |-> event.n + 1, collected |-> 0, applied |-> 0, cleared |-> 0]
  /\ last' = Op("NewInputData", 0, FALSE)
  /\ UNCHANGED <<plain, cur, steps, gain, conf, aborted, qn>>

Process ==
  /\ ~aborted
  /\ conf.kind = "channels"
  /\ event.n > 0
  /\ event.applied = 0
  /\ LET r == GainProcess(Obj(gain), bank, evClass)
     IN  /\ gain' = New(r.st)
         /\ bank' = r.bank
         /\ last' = [Op("Process", 0, r.ret)
                       EXCEPT !.before = New([gain |-> Obj(gain), bank |-> bank])]
  /\ event' = [event EXCEPT !.applied = 1]
  /\ UNCHANGED <<plain, cur, evClass, steps, conf, aborted, qn>>

NextGain ==
  \/ \E inputDataBank \in InputDataBanks, bin \in Bins : NewInputData(inputDataBank, bin)
  \/ Process

SpecGain == InitGain /\ [][NextGain]_vars

---------------------------------------------------------------------------

(* SpecEvents: the event loop of a configuration of either kind *)

InitEvents == Init \/ InitGain

NextEvents == Next \/ NextGain

SpecEvents == InitEvents /\ [][NextEvents]_vars

(* SpecLifetime: the event loop of a configuration whose steps may be asked *)
(* for their support histograms again at any time                          *)

NextLifetime ==
  \/ NextEvents
  \/ \E s \in 1 .. MaxSteps : CreateSupportHistograms(s)
  \/ GainCreateSupportHistogramsOp

SpecLifetime == InitEvents /\ [][NextLifetime]_vars

---------------------------------------------------------------------------

(* Properties.  An operation is told by last', the step it ran on by        *)
(* last'.step; unprimed variables are the state it started from.           *)

\* the corrected Qn vector of step s, in the list sts of steps and now
CorrectedIn(sts, s) == Obj(sts[s].fCorrectedQnVector)
Corrected(s) == CorrectedIn(steps, s)

\* the vector fInputQnVector of step s designates
Designated(s) == Vec(steps[s].fInputQnVector)

\* the state of step s is applyCollect or apply
Applying(s) == steps[s].fState # QCORRSTEP_calibration

\* the counter of the not validated bins of a step for an event class, zero
\* when the step has no such histogram
NotValidatedCount(st, bin) ==
  IF st.fQANotValidatedBin = NULL THEN 0 ELSE Obj(st.fQANotValidatedBin)[bin]

\* (q - mean) / width for harmonic h of vector current, from the parameters
\* the input histograms of step st hold for the bin
RecenteredX(st, current, bin, h) ==
  LET hist == Obj(st.fInputHistograms)
  IN  FDiv(FSub(current.fQnX[h], GetXBinContent(hist, h, bin)),
           IF st.fApplyWidthEqualization THEN GetXBinError(hist, h, bin) ELSE F(1))
RecenteredY(st, current, bin, h) ==
  LET hist == Obj(st.fInputHistograms)
  IN  FDiv(FSub(current.fQnY[h], GetYBinContent(hist, h, bin)),
           IF st.fApplyWidthEqualization THEN GetYBinError(hist, h, bin) ELSE F(1))

\* the calibration histograms after the components of the active harmonics of
\* vector input have been filled once each for the bin
Folded(before, input, bin) ==
  [k \in DOMAIN before |->
     IF k[1] = bin /\ k[2] \in ActiveHarmonics(input)
     THEN [nX |-> before[k].nX + 1, sumX |-> FAdd(before[k].sumX, input.fQnX[k[2]]),
           nY |-> before[k].nY + 1, sumY |-> FAdd(before[k].sumY, input.fQnY[k[2]])]
     ELSE before[k]]

\* C1: the state of a correction step never moves backwards in the order
\* calibration < applyCollect < apply, whatever the operation, a successful
\* AttachInput on a step that is in apply included.
C1_StateNeverRegresses ==
  [][ /\ \A s \in Steps :
           StateRank(steps'[s].fState) >= StateRank(steps[s].fState)
      /\ gain # NULL =>
           StateRank(Obj(gain').fState) >= StateRank(Obj(gain).fState) ]_vars

\* C2: a step is in calibration after construction; AttachInput returns TRUE
\* exactly when the histograms of the list were attached; a successful
\* AttachInput on a step in calibration takes it to applyCollect; a failed one
\* returns FALSE and leaves the step, the hard coded weights of the gain
\* equalization included, as it was.
C2_AttachInput ==
  /\ \A s \in Steps : steps[s].fState = QCORRSTEP_calibration
  /\ gain # NULL => Obj(gain).fState = QCORRSTEP_calibration
  /\ [][ /\ (last'.op = "AttachInput" /\ ~aborted') =>
              LET s == last'.step
              IN  /\ last'.ret = (last'.list # NULL)
                  /\ last'.ret = (/\ Obj(steps'[s].fInputHistograms).attached
                                  /\ New(Obj(steps'[s].fInputHistograms).file) = last'.list)
                  /\ (last'.ret /\ steps[s].fState = QCORRSTEP_calibration)
                        => steps'[s].fState = QCORRSTEP_applyCollect
                  /\ ~last'.ret => steps'[s] = steps[s]
         /\ (last'.op = "GainAttachInput" /\ ~aborted') =>
              /\ last'.ret = (last'.list # NULL)
              /\ last'.ret = (/\ Obj(Obj(gain').fInputHistograms).attached
                              /\ New(Obj(Obj(gain').fInputHistograms).file) = last'.list)
              /\ (last'.ret /\ Obj(gain).fState = QCORRSTEP_calibration)
                    => Obj(gain').fState = QCORRSTEP_applyCollect
              /\ ~last'.ret => gain' = gain ]_vars

\* a step in calibration was attached to the histograms of a previous pass
C2_Witness ==
  /\ last.op = "AttachInput"
  /\ last.ret
  /\ last.list # NULL
  /\ steps[last.step].fState = QCORRSTEP_applyCollect
  /\ Obj(steps[last.step].fInputHistograms).attached

\* C3: ProcessCorrections on a Recentering step in calibration returns FALSE and
\* changes nothing: not its corrected Qn vector, not the current Qn vector, not
\* the calibration histograms, not the counter of the not validated bins.
C3_CalibrationAppliesNothing ==
  [][ (last'.op = "ProcessCorrections"
         /\ steps[last'.step].fState = QCORRSTEP_calibration)
      => /\ last'.ret = FALSE
         /\ steps' = steps
         /\ cur' = cur
         /\ plain' = plain
         /\ aborted' = aborted ]_vars

\* a step in calibration was asked to correct a current Qn vector of good quality
C3_Witness ==
  /\ last.op = "ProcessCorrections"
  /\ steps[last.step].fState = QCORRSTEP_calibration
  /\ ~last.ret
  /\ GetCurrentQnVector.fGoodQuality
  /\ GetCurrentQnVector.fQnX[GetFirstHarmonic(plain)] # F(0)

\* C4: ProcessCorrections on a step in applyCollect or apply, the current Qn
\* vector being of bad quality, flags its corrected Qn vector as bad, leaves
\* every component of it as it was, counts nothing and ends normally.
C4_BadQualityInput ==
  [][ LET s == last'.step
      IN  (last'.op = "ProcessCorrections" /\ Applying(s)
             /\ ~GetCurrentQnVector.fGoodQuality)
          => /\ ~CorrectedIn(steps', s).fGoodQuality
             /\ CorrectedIn(steps', s).fQnX = Corrected(s).fQnX
             /\ CorrectedIn(steps', s).fQnY = Corrected(s).fQnY
             /\ steps'[s].fQANotValidatedBin = steps[s].fQANotValidatedBin
             /\ steps'[s].fCalibrationHistograms = steps[s].fCalibrationHistograms
             /\ ~aborted' ]_vars

\* an applying step was given a bad current Qn vector while its corrected Qn
\* vector still held the components of the event before
C4_Witness ==
  /\ last.op = "ProcessCorrections"
  /\ Applying(last.step)
  /\ cur = last.step
  /\ ~Corrected(last.step).fGoodQuality
  /\ Corrected(last.step).fQnX[GetFirstHarmonic(plain)] # F(0)
  /\ steps[last.step].fQANotValidatedBin # NULL
  /\ ~aborted

\* C5: in a chain of applying steps run in list order for an event, once the
\* corrected Qn vector of the first step is flagged bad every later step leaves
\* the components of its own corrected Qn vector as they were and flags it
\* bad, so the current Qn vector ends bad.
C5_BadQualityPropagates ==
  [][ LET s == last'.step
      IN  (/\ last'.op = "ProcessCorrections"
           /\ s > 1
           /\ \A i \in 1 .. s : Applying(i)
           /\ ~Corrected(1).fGoodQuality)
          => /\ CorrectedIn(steps', s).fQnX = Corrected(s).fQnX
             /\ CorrectedIn(steps', s).fQnY = Corrected(s).fQnY
             /\ ~CorrectedIn(steps', s).fGoodQuality
             /\ cur' = s
             /\ ~GetCurrentQnVector'.fGoodQuality ]_vars

\* the last step of a chain of applying steps ran after the first one had
\* flagged its corrected Qn vector bad, its own still holding earlier components
C5_Witness ==
  /\ last.op = "ProcessCorrections"
  /\ last.step = conf.nSteps
  /\ last.step > 1
  /\ \A i \in Steps : Applying(i)
  /\ ~Corrected(1).fGoodQuality
  /\ cur = last.step
  /\ ~GetCurrentQnVector.fGoodQuality
  /\ Corrected(last.step).fQnX[GetFirstHarmonic(plain)] # F(0)

\* C6: ProcessCorrections on an applying step, the current Qn vector being of
\* good quality and the parameters of the bin validated, sets for every active
\* harmonic of the current Qn vector, and for no other, the components of the
\* corrected Qn vector to (current - mean) / width, the widths being one when
\* width equalization is off; the current Qn vector becomes the corrected one.
C6_Recentered ==
  [][ LET s == last'.step
          current == GetCurrentQnVector
      IN  (/\ last'.op = "ProcessCorrections"
           /\ Applying(s)
           /\ current.fGoodQuality
           /\ BinContentValidated(Obj(steps[s].fInputHistograms), evClass))
          => /\ \A h \in HarmonicIndex :
                  IF h \in ActiveHarmonics(current)
                  THEN /\ CorrectedIn(steps', s).fQnX[h]
                            = RecenteredX(steps[s], current, evClass, h)
                       /\ CorrectedIn(steps', s).fQnY[h]
                            = RecenteredY(steps[s], current, evClass, h)
                  ELSE /\ CorrectedIn(steps', s).fQnX[h] = current.fQnX[h]
                       /\ CorrectedIn(steps', s).fQnY[h] = current.fQnY[h]
             /\ CorrectedIn(steps', s).fGoodQuality
             /\ cur' = s ]_vars

\* the plain Qn vector (5, 5) of a validated bin with mean (2, 2) was recentered
\* without width equalization to (3, 3)
C6_Witness ==
  /\ last.op = "ProcessCorrections"
  /\ last.step = 1
  /\ Applying(1)
  /\ plain.fGoodQuality
  /\ BinContentValidated(Obj(steps[1].fInputHistograms), evClass)
  /\ ~steps[1].fApplyWidthEqualization
  /\ LET h == GetFirstHarmonic(plain)
     IN  /\ plain.fQnX[h] = F(5) /\ plain.fQnY[h] = F(5)
         /\ GetXBinContent(Obj(steps[1].fInputHistograms), h, evClass) = F(2)
         /\ GetYBinContent(Obj(steps[1].fInputHistograms), h, evClass) = F(2)
         /\ Corrected(1).fQnX[h] = F(3) /\ Corrected(1).fQnY[h] = F(3)

\* C7 as stated: with a good current Qn vector and a bin that is not validated
\* the components of the corrected Qn vector equal those of the current one and
\* the counter of the not validated bins of the event class grows by exactly
\* one; with a validated bin the counter does not grow.
C7_CounterAlwaysGrows ==
  [][ LET s == last'.step
          current == GetCurrentQnVector
      IN  (last'.op = "ProcessCorrections" /\ Applying(s) /\ current.fGoodQuality)
          => IF BinContentValidated(Obj(steps[s].fInputHistograms), evClass)
             THEN NotValidatedCount(steps'[s], evClass)
                    = NotValidatedCount(steps[s], evClass)
             ELSE /\ CorrectedIn(steps', s).fQnX = current.fQnX
                  /\ CorrectedIn(steps', s).fQnY = current.fQnY
                  /\ NotValidatedCount(steps'[s], evClass)
                       = NotValidatedCount(steps[s], evClass) + 1 ]_vars

\* C7: with a good current Qn vector and a bin that is not validated the
\* components of the corrected Qn vector equal those of the current one, and
\* the counter of the not validated bins of the event class grows by exactly
\* one when the step has the QA histogram (CreateNveQAHistograms was called);
\* a step without it counts nothing.  With a validated bin no counter grows.
C7_NotValidated ==
  [][ LET s == last'.step
          current == GetCurrentQnVector
      IN  (last'.op = "ProcessCorrections" /\ Applying(s) /\ current.fGoodQuality)
          => IF BinContentValidated(Obj(steps[s].fInputHistograms), evClass)
             THEN steps'[s].fQANotValidatedBin = steps[s].fQANotValidatedBin
             ELSE /\ CorrectedIn(steps', s).fQnX = current.fQnX
                  /\ CorrectedIn(steps', s).fQnY = current.fQnY
                  /\ CorrectedIn(steps', s).fGoodQuality
                  /\ IF steps[s].fQANotValidatedBin # NULL
                     THEN Obj(steps'[s].fQANotValidatedBin) =
                            [Obj(steps[s].fQANotValidatedBin) EXCEPT ![evClass] = @ + 1]
                     ELSE steps'[s].fQANotValidatedBin = NULL ]_vars

\* the first step copied the plain Qn vector of a bin that is not validated and
\* counted the bin once
C7_Witness ==
  /\ last.op = "ProcessCorrections"
  /\ last.step = 1
  /\ Applying(1)
  /\ plain.fGoodQuality
  /\ ~BinContentValidated(Obj(steps[1].fInputHistograms), evClass)
  /\ Corrected(1).fQnX = plain.fQnX
  /\ Corrected(1).fQnY = plain.fQnY
  /\ plain.fQnX[GetFirstHarmonic(plain)] # F(0)
  /\ NotValidatedCount(steps[1], evClass) = 1

\* C8: ProcessDataCollection changes no Qn vector and no state of a step: the
\* plain and the corrected Qn vectors, the current Qn vector, the designated
\* input and the state of every step are as before.
C8_CollectionReadsOnly ==
  [][ last'.op = "ProcessDataCollection"
      => /\ plain' = plain
         /\ cur' = cur
         /\ \A s \in Steps :
              /\ steps'[s].fCorrectedQnVector = steps[s].fCorrectedQnVector
              /\ steps'[s].fInputQnVector = steps[s].fInputQnVector
              /\ steps'[s].fState = steps[s].fState ]_vars

\* a step collected the components of its input while its corrected Qn vector
\* held the correction of the event
C8_Witness ==
  /\ last.op = "ProcessDataCollection"
  /\ Designated(last.step).fGoodQuality
  /\ Corrected(last.step).fGoodQuality
  /\ Corrected(last.step).fQnX[GetFirstHarmonic(plain)] # F(0)
  /\ Obj(steps[last.step].fCalibrationHistograms)[<<evClass, GetFirstHarmonic(plain)>>].nX > 0

\* C9: ProcessDataCollection fills the X and the Y component of every active
\* harmonic of the designated input Qn vector into the calibration histograms,
\* once per harmonic and call, exactly when the step is in calibration or in
\* applyCollect and the input is of good quality; in apply, or with an input
\* of bad quality, the calibration histograms stay as they were.
C9_CollectionFolds ==
  [][ last'.op = "ProcessDataCollection"
      => LET s == last'.step
             input == Designated(s)
             before == Obj(steps[s].fCalibrationHistograms)
             after == Obj(steps'[s].fCalibrationHistograms)
         IN  /\ IF steps[s].fState \in {QCORRSTEP_calibration, QCORRSTEP_applyCollect}
                   /\ input.fGoodQuality
                THEN after = Folded(before, input, evClass)
                ELSE after = before
             /\ \A o \in Steps \ {s} :
                  steps'[o].fCalibrationHistograms = steps[o].fCalibrationHistograms ]_vars

\* a step in applyCollect filled the components of a good input for the second
\* time in the same bin
C9_Witness ==
  /\ last.op = "ProcessDataCollection"
  /\ steps[last.step].fState = QCORRSTEP_applyCollect
  /\ Designated(last.step).fGoodQuality
  /\ LET fills == Obj(steps[last.step].fCalibrationHistograms)
                     [<<evClass, GetFirstHarmonic(plain)>>]
     IN  /\ fills.nX = 2 /\ fills.nY = 2
         /\ fills.sumX # F(0)

\* C10: the designated input of a step is the corrected Qn vector of its
\* predecessor, the plain Qn vector for the first step, and no operation of the
\* event loop moves it; a step in applyCollect collects the components of the
\* designated input, whatever the current Qn vector refers to, and corrects
\* the current Qn vector.
C10_CollectsDesignatedInput ==
  [][ LET s == last'.step
      IN  /\ last'.op \in {"ProcessDataCollection", "ProcessCorrections"}
               => /\ steps[s].fInputQnVector = s - 1
                  /\ \A o \in Steps : steps'[o].fInputQnVector = steps[o].fInputQnVector
          /\ (/\ last'.op = "ProcessDataCollection"
              /\ steps[s].fState = QCORRSTEP_applyCollect
              /\ Vec(s - 1).fGoodQuality)
               => Obj(steps'[s].fCalibrationHistograms)
                    = Folded(Obj(steps[s].fCalibrationHistograms), Vec(s - 1), evClass)
          /\ (/\ last'.op = "ProcessCorrections"
              /\ steps[s].fState = QCORRSTEP_applyCollect
              /\ Vec(cur).fGoodQuality)
               => \A h \in ActiveHarmonics(Vec(cur)) :
                    IF BinContentValidated(Obj(steps[s].fInputHistograms), evClass)
                    THEN CorrectedIn(steps', s).fQnX[h]
                           = RecenteredX(steps[s], Vec(cur), evClass, h)
                    ELSE CorrectedIn(steps', s).fQnX[h] = Vec(cur).fQnX[h] ]_vars

\* a step in applyCollect collected the components of its designated input
\* while the current Qn vector was another vector with other components
C10_Witness ==
  /\ last.op = "ProcessDataCollection"
  /\ steps[last.step].fState = QCORRSTEP_applyCollect
  /\ cur # steps[last.step].fInputQnVector
  /\ Designated(last.step).fGoodQuality
  /\ LET h == GetFirstHarmonic(plain)
         fills == Obj(steps[last.step].fCalibrationHistograms)[<<evClass, h>>]
     IN  /\ fills.nX = 1
         /\ fills.sumX = Designated(last.step).fQnX[h]
         /\ fills.sumX # GetCurrentQnVector.fQnX[h]

\* C14: ReportUsage declares the step by its state: in calibration its name goes
\* to the collecting list only and the call returns FALSE; in applyCollect the
\* name goes to both lists and the call returns TRUE; in apply the name goes to
\* the applying list only and the call returns TRUE; the step is not changed.
C14_ReportUsage ==
  [][ last'.op = "ReportUsage"
      => LET state == steps[last'.step].fState
             collecting == last'.calibrationList
             applying == last'.applyList
         IN  /\ state = QCORRSTEP_calibration
                  => collecting = <<szCorrectionName>> /\ applying = <<>> /\ ~last'.ret
             /\ state = QCORRSTEP_applyCollect
                  => /\ collecting = <<szCorrectionName>>
                     /\ applying = <<szCorrectionName>>
                     /\ last'.ret
             /\ state = QCORRSTEP_apply
                  => collecting = <<>> /\ applying = <<szCorrectionName>> /\ last'.ret
             /\ steps' = steps ]_vars

\* a step in applyCollect reported itself in both lists
C14_Witness ==
  /\ last.op = "ReportUsage"
  /\ steps[last.step].fState = QCORRSTEP_applyCollect
  /\ last.calibrationList = <<szCorrectionName>>
  /\ last.applyList = <<szCorrectionName>>
  /\ last.ret

\* the vector is zero in every component, of bad quality where the revision
\* has a quality flag, and of the harmonic structure of the vector before
IsResetOf(after, before) ==
  /\ \A h \in HarmonicIndex : after.fQnX[h] = F(0) /\ after.fQnY[h] = F(0)
  /\ "fGoodQuality" \in DOMAIN before => ~after.fGoodQuality
  /\ after.fHarmonicMask = before.fHarmonicMask
  /\ after.fHighestHarmonic = before.fHighestHarmonic

C19_ActivateHarmonic ==
  [][ (last'.op = "ActivateHarmonic" /\ last'.harmonic \in 1 .. nMaxHarmonicNumberSupported)
      => LET h == last'.harmonic
             before == qn.v
             after == qn'.v
         IN  IF IsActive(before, h)
             THEN after = before
             ELSE /\ after.fHarmonicMask = before.fHarmonicMask + harmonicNumberMask(h)
                  /\ after.fQnX[h] = F(0) /\ after.fQnY[h] = F(0)
                  /\ after.fHighestHarmonic =
                       IF before.fHighestHarmonic < h THEN h ELSE before.fHighestHarmonic
                  /\ \A k \in HarmonicIndex \ {h} :
                       after.fQnX[k] = before.fQnX[k] /\ after.fQnY[k] = before.fQnY[k]
    ]_vars

\* C20: over any sequence of member function calls on a Qn vector no
\* harmonic that is active stops being active, and only ActivateHarmonic
\* changes fHarmonicMask.
C20_MaskOnlyGrows ==
  [][ /\ \A h \in 1 .. nMaxHarmonicNumberSupported :
           IsActive(qn.v, h) => IsActive(qn'.v, h)
      /\ qn'.v.fHarmonicMask # qn.v.fHarmonicMask => last'.op = "ActivateHarmonic"
    ]_vars

\* the step and the input data bank Process started from, in a state it has left
GainBefore == Obj(last.before).gain

\* C15: in average mode, Process in applyCollect or apply stores in every
\* data vector the equalized weight (raw weight / channel average) * group
\* weight when the average read for the event class and the channel id is
\* above the significance threshold, and 0 otherwise; nothing else of the
\* data vector changes.
C15_AverageEqualization ==
  [][ ( /\ last'.op = "Process"
        /\ Obj(gain).fEqualizationMethod = QEQUAL_averageEqualization
        /\ Obj(gain).fState # QCORRSTEP_calibration )
      => /\ DOMAIN bank' = DOMAIN bank
         /\ \A ixData \in DOMAIN bank :
              LET dataVector == bank[ixData]
                  average == Obj(Obj(gain).fInputHistograms).file.content[
                               <<evClass, dataVector.fId>>]
                  groupweight == GroupWeight(Obj(gain), evClass, dataVector.fId)
              IN  bank'[ixData] =
                    [dataVector EXCEPT !.fEqualizedWeight =
                       IF FLess(fMinimumSignificantValue, average)
                       THEN FMul(FDiv(dataVector.fWeight, average), groupweight)
                       ELSE F(0)]
    ]_vars

\* raw weight 2, average 4 and group weight 1 give 1/2; an average of zero gives 0
C15_Witness ==
  /\ last.op = "Process"
  /\ GainBefore.fEqualizationMethod = QEQUAL_averageEqualization
  /\ GainBefore.fState = QCORRSTEP_applyCollect
  /\ Len(bank) = 2
  /\ bank[1].fWeight = F(2)
  /\ GainAverage(GainBefore, evClass, bank[1].fId) = F(4)
  /\ GroupWeight(GainBefore, evClass, bank[1].fId) = F(1)
  /\ bank[1].fEqualizedWeight = <<1, 2>>
  /\ bank[2].fWeight = F(4)
  /\ GainAverage(GainBefore, evClass, bank[2].fId) = F(0)
  /\ bank[2].fEqualizedWeight = F(0)

\* C16: in width mode, Process in applyCollect or apply stores in every data
\* vector the equalized weight (A + B * (raw weight - channel average) /
\* channel width) * group weight when the average and the width read for the
\* channel are above the significance threshold, and 0 when either of them
\* is not, so that nothing is divided by a value below the threshold.
C16_WidthEqualization ==
  [][ ( /\ last'.op = "Process"
        /\ Obj(gain).fEqualizationMethod = QEQUAL_widthEqualization
        /\ Obj(gain).fState # QCORRSTEP_calibration )
      => /\ DOMAIN bank' = DOMAIN bank
         /\ \A ixData \in DOMAIN bank :
              LET dataVector == bank[ixData]
                  g == Obj(gain)
                  key == <<evClass, dataVector.fId>>
                  average == Obj(g.fInputHistograms).file.content[key]
                  width == Obj(g.fInputHistograms).file.error[key]
                  groupweight == GroupWeight(g, evClass, dataVector.fId)
              IN  bank'[ixData] =
                    [dataVector EXCEPT !.fEqualizedWeight =
                       IF /\ FLess(fMinimumSignificantValue, average)
                          /\ FLess(fMinimumSignificantValue, width)
                       THEN FMul(FAdd(g.fA,
                                      FDiv(FMul(g.fB, FSub(dataVector.fWeight, average)),
                                           width)),
                                 groupweight)
                       ELSE F(0)]
    ]_vars

\* the data vectors of a bank that belong to a channel, and their raw weights summed
OfChannel(inputDataBank, id) == {ixData \in DOMAIN inputDataBank : inputDataBank[ixData].fId = id}
RECURSIVE SumOfWeights(_, _)
SumOfWeights(inputDataBank, indices) ==
  IF indices = {} THEN F(0)
  ELSE LET ixData == CHOOSE i \in indices : TRUE
       IN  FAdd(inputDataBank[ixData].fWeight, SumOfWeights(inputDataBank, indices \ {ixData}))

\* C17: Process in calibration or applyCollect folds the raw weight of every
\* data vector of the input data bank into the calibration store under the
\* event class and the channel id of the data vector, once per data vector
\* and whatever the equalization method; Process in apply leaves the
\* calibration store as it was.
C17_CollectsRawWeights ==
  [][ last'.op = "Process"
      => LET before == Obj(Obj(gain).fCalibrationHistograms)
             after == Obj(Obj(gain').fCalibrationHistograms)
         IN  IF Obj(gain).fState = QCORRSTEP_apply
             THEN after = before
             ELSE \A k \in Bins \X Channels :
                    LET mine == IF k[1] = evClass THEN OfChannel(bank, k[2]) ELSE {}
                    IN  /\ after[k].n = before[k].n + Cardinality(mine)
                        /\ after[k].sum = FAdd(before[k].sum, SumOfWeights(bank, mine))
    ]_vars

\* two data vectors of channel 1, of weights 4 and 2, collected in calibration
\* by a step set up for width equalization
C17_Witness ==
  /\ last.op = "Process"
  /\ GainBefore.fState = QCORRSTEP_calibration
  /\ GainBefore.fEqualizationMethod = QEQUAL_widthEqualization
  /\ Len(bank) = 2
  /\ bank[1].fId = 1 /\ bank[2].fId = 1
  /\ Obj(GainBefore.fCalibrationHistograms)[<<evClass, 1>>].n = 0
  /\ Obj(Obj(gain).fCalibrationHistograms)[<<evClass, 1>>] = [n |-> 2, sum |-> F(6)]

WithNothingCollected(st) ==
  [st EXCEPT !.fCalibrationHistograms = New(CreateComponentsProfileHistograms(ConfHarmonics))]

\* the gain equalization step g in apply, with a calibration store nothing
\* was collected into
GainWithNothingCollected(g) ==
  [g EXCEPT !.fState = QCORRSTEP_apply, !.fCalibrationHistograms = New(ProfileChannelizedCtor)]

\* C11: the collection of an event writes the calibration store of the pass
\* under way and leaves the attached store of the previous pass alone, and
\* the correction applied to an event does not depend on what has been
\* collected: the recentered Qn vector and the equalized weights are those a
\* step that collected nothing yields, whether the collection of the event
\* ran before the correction, after it or not at all.
C11_OwnContributionNeverApplied ==
  [][ /\ last'.op = "ProcessDataCollection"
        => LET s == last'.step
           IN  /\ steps' = [steps EXCEPT ![s].fCalibrationHistograms =
                                           steps'[s].fCalibrationHistograms]
               /\ plain' = plain /\ cur' = cur
      /\ (last'.op = "ProcessCorrections" /\ Applying(last'.step))
        => LET s == last'.step
               apart == RecProcessCorrections(WithNothingCollected(steps[s]),
                                              GetCurrentQnVector, evClass)
           IN  /\ CorrectedIn(steps', s) = Obj(apart.st.fCorrectedQnVector)
               /\ steps'[s].fInputHistograms = steps[s].fInputHistograms
               /\ steps'[s].fCalibrationHistograms = steps[s].fCalibrationHistograms
      /\ last'.op = "Process"
        => /\ Obj(gain').fInputHistograms = Obj(gain).fInputHistograms
           /\ Obj(gain).fState # QCORRSTEP_calibration
                => bank' = GainProcess(GainWithNothingCollected(Obj(gain)), bank, evClass).bank
    ]_vars

\* the gain equalization step in applyCollect has collected the data vectors
\* of the event and equalized them by the average of the previous pass
C11_Witness ==
  /\ last.op = "Process"
  /\ GainBefore.fState = QCORRSTEP_applyCollect
  /\ GainBefore.fEqualizationMethod = QEQUAL_averageEqualization
  /\ Len(bank) = 2
  /\ Obj(Obj(gain).fCalibrationHistograms)[<<evClass, 0>>].n
       = Obj(GainBefore.fCalibrationHistograms)[<<evClass, 0>>].n + 1
  /\ Obj(gain).fInputHistograms = GainBefore.fInputHistograms
  /\ bank[1].fWeight = F(2)
  /\ bank[1].fEqualizedWeight = <<1, 2>>

\* C21: the harmonic structure violations are fatal and leave the vector as
\* it was: Set from a vector of another fHighestHarmonic or fHarmonicMask,
\* ActivateHarmonic beyond the highest harmonic supported, and SetQx or
\* SetQy on a build vector stop processing without changing mask, highest
\* harmonic, components or quality; Set from a vector of the same structure
\* copies the components and the quality and leaves the structure as it was.
C21_FatalNeverCorrupts ==
  [][ /\ (last'.op = "Set" /\ SetIsFatal(qn.v, Obj(last'.Qn)))
           => aborted' /\ qn'.v = qn.v
      /\ (last'.op = "Set" /\ ~SetIsFatal(qn.v, Obj(last'.Qn)))
           => /\ ~aborted'
              /\ qn'.v.fQnX = Obj(last'.Qn).fQnX
              /\ qn'.v.fQnY = Obj(last'.Qn).fQnY
              /\ qn.file = DataVector_cxx
                   => qn'.v.fGoodQuality = Obj(last'.Qn).fGoodQuality
              /\ qn'.v.fHarmonicMask = qn.v.fHarmonicMask
              /\ qn'.v.fHighestHarmonic = qn.v.fHighestHarmonic
      /\ (last'.op = "ActivateHarmonic" /\ nMaxHarmonicNumberSupported < last'.harmonic)
           => aborted' /\ qn'.v = qn.v
      /\ (last'.op \in {"SetQx", "SetQy"} /\ qn.build)
           => aborted' /\ qn'.v = qn.v
    ]_vars

\* build vector v after Add of Qn, in the revision of file
AddedTo(file, v, Qn) ==
  IF file = DataVector_cxx THEN BuildAdd(v, Qn) ELSE BuildAdd_QnVectors(v, Qn)

\* the vectors handed to Add that share the harmonic mask of v
SharingMask(file, v) ==
  {Qn \in OtherVectors(file, TRUE) : Qn.fHarmonicMask = v.fHarmonicMask}

\* C22: Add of a build vector sharing the harmonic mask makes the x and y of
\* every active harmonic the old value plus the value of the added vector,
\* and adds its sum of weights and its number of entries; accumulating
\* A, B, C gives the same components, sum of weights and number of entries
\* as accumulating C, A, B.
C22_AddAccumulates ==
  [][ (last'.op = "Add" /\ Obj(last'.Qn).fHarmonicMask = qn.v.fHarmonicMask)
      => LET Qn == Obj(last'.Qn)
         IN  /\ \A h \in ActiveHarmonics(qn.v) :
                  /\ qn'.v.fQnX[h] = FAdd(qn.v.fQnX[h], Qn.fQnX[h])
                  /\ qn'.v.fQnY[h] = FAdd(qn.v.fQnY[h], Qn.fQnY[h])
             /\ qn'.v.fSumW = FAdd(qn.v.fSumW, Qn.fSumW)
             /\ qn'.v.fN = qn.v.fN + Qn.fN
             /\ \A B, C \in SharingMask(qn.file, qn.v) :
                  AddedTo(qn.file, AddedTo(qn.file, qn'.v, B), C)
                    = AddedTo(qn.file, AddedTo(qn.file, AddedTo(qn.file, qn.v, C), Qn), B)
    ]_vars

\* C23: NormalizeQoverM leaves every component as it was when the sum of
\* weights is below the significance threshold, and otherwise divides the x
\* and y of every active harmonic by the sum of weights, once; it changes
\* neither the sum of weights nor the number of entries.
C23_NormalizeQoverM ==
  [][ last'.op = "NormalizeQoverM"
      => /\ qn'.v.fSumW = qn.v.fSumW
         /\ qn'.v.fN = qn.v.fN
         /\ IF FLess(qn.v.fSumW, fMinimumSignificantValue)
            THEN qn'.v.fQnX = qn.v.fQnX /\ qn'.v.fQnY = qn.v.fQnY
            ELSE \A h \in ActiveHarmonics(qn.v) :
                   /\ qn'.v.fQnX[h] = FDiv(qn.v.fQnX[h], qn.v.fSumW)
                   /\ qn'.v.fQnY[h] = FDiv(qn.v.fQnY[h], qn.v.fSumW)
    ]_vars

\* C24: NormalizeQoverSquareRootOfM divides the x and y of every active
\* harmonic by the square root of the sum of weights when the sum of
\* weights is at or above the significance threshold, and leaves every
\* component as it was when it is below.
C24_NormalizeQoverSquareRootOfM ==
  [][ last'.op = "NormalizeQoverSquareRootOfM"
      => IF FLess(qn.v.fSumW, fMinimumSignificantValue)
         THEN qn'.v.fQnX = qn.v.fQnX /\ qn'.v.fQnY = qn.v.fQnY
         ELSE \A h \in ActiveHarmonics(qn.v) :
                /\ qn'.v.fQnX[h] = FDiv(qn.v.fQnX[h], Sqrt(qn.v.fSumW))
                /\ qn'.v.fQnY[h] = FDiv(qn.v.fQnY[h], Sqrt(qn.v.fSumW))
    ]_vars

\* C25: CreateSupportHistograms called again on a step that has its
\* calibration histograms leaves them as they were: no second set is
\* created and what was collected is kept.
C25_CreateSupportHistogramsIdempotent ==
  [][ /\ (last'.op = "CreateSupportHistograms"
            /\ steps[last'.step].fCalibrationHistograms # NULL)
           => steps'[last'.step].fCalibrationHistograms
                = steps[last'.step].fCalibrationHistograms
      /\ (last'.op = "GainCreateSupportHistograms"
            /\ Obj(gain).fCalibrationHistograms # NULL)
           => Obj(gain').fCalibrationHistograms = Obj(gain).fCalibrationHistograms
    ]_vars

\* the vector the chain hands to step s: the corrected output of the last
\* step before s that is not in calibration, or the plain vector (0)
LastApplied(s) ==
  LET applying == {k \in 1 .. s - 1 : steps[k].fState # QCORRSTEP_calibration}
  IN  IF applying = {} THEN 0 ELSE CHOOSE k \in applying : \A j \in applying : j <= k

\* C26: the chain is sequential on the current Qn vector.  ProcessCorrections
\* of a step in applyCollect or apply reads the vector the last applying
\* step before it left as current (the plain vector if there is none), with
\* good or bad quality, validated or not, and leaves its own corrected
\* output as the current Qn vector; a step in calibration leaves the current
\* Qn vector as its predecessor left it.
C26_ChainIsSequential ==
  [][ (last'.op = "ProcessCorrections" /\ ~aborted')
      => LET s == last'.step
         IN  /\ cur = LastApplied(s)
             /\ IF steps[s].fState = QCORRSTEP_calibration
                THEN cur' = cur /\ steps' = steps /\ plain' = plain
                ELSE /\ cur' = s
                     /\ plain' = plain
                     /\ CorrectedIn(steps', s)
                          = Obj(ApplyCase(steps[s], Vec(LastApplied(s)), evClass)
                                  .st.fCorrectedQnVector)
                     /\ CorrectedIn(steps', s).fGoodQuality
                          = Vec(LastApplied(s)).fGoodQuality
    ]_vars

\* step 2 has recentered the output of step 1, which had recentered the plain vector
C26_Witness ==
  /\ last.op = "ProcessCorrections"
  /\ last.step = 2
  /\ cur = 2
  /\ steps[1].fState = QCORRSTEP_apply
  /\ steps[2].fState = QCORRSTEP_applyCollect
  /\ Corrected(2).fGoodQuality
  /\ Corrected(1).fQnX # plain.fQnX
  /\ Corrected(2).fQnX # Corrected(1).fQnX

\* v and w have the same harmonic structure
SameStructure(v, w) ==
  v.fHarmonicMask = w.fHarmonicMask /\ v.fHighestHarmonic = w.fHighestHarmonic

\* C27: at every point of a run the corrected output of every step has the
\* harmonic mask and the highest harmonic of the plain Qn vector of the
\* configuration and of the current Qn vector, so that the Set of
\* ProcessCorrections never ends in the fatal error of a structure mismatch.
C27_StructureEquality ==
  conf.kind = "tracks"
    => /\ \A s \in Steps :
            steps[s].fCorrectedQnVector # NULL
              => /\ SameStructure(Corrected(s), plain)
                 /\ SameStructure(Corrected(s), GetCurrentQnVector)
                 /\ ~SetIsFatal(Corrected(s), GetCurrentQnVector)
       /\ last.op = "ProcessCorrections" => ~aborted

\* the Set of ProcessCorrections has copied a good-quality vector of
\* harmonics 2 and 4 into the output of step 2
C27_Witness ==
  /\ last.op = "ProcessCorrections"
  /\ last.step = 2
  /\ steps[2].fState # QCORRSTEP_calibration
  /\ Corrected(2).fGoodQuality
  /\ plain.fHarmonicMask = harmonicNumberMask(2) + harmonicNumberMask(4)
  /\ plain.fHighestHarmonic = 4
  /\ Corrected(2).fHarmonicMask = plain.fHarmonicMask

\* no step in calibration has a corrected output of good quality
CalibrationOutputIsBad ==
  \A s \in Steps :
    (steps[s].fState = QCORRSTEP_calibration /\ steps[s].fCorrectedQnVector # NULL)
      => ~Corrected(s).fGoodQuality

\* C28: the corrected output of a Recentering step in calibration is never
\* of good quality, and the step that follows it in the chain, whose input
\* is that output, fills nothing into its calibration histograms in any
\* event for as long as its predecessor is in calibration.
C28_NothingCollectedAfterCalibration ==
  /\ [] CalibrationOutputIsBad
  /\ [][ ( /\ last'.op = "ProcessDataCollection"
           /\ last'.step > 1
           /\ steps[last'.step - 1].fState = QCORRSTEP_calibration )
         => /\ ~aborted'
            /\ steps'[last'.step].fCalibrationHistograms
                 = steps[last'.step].fCalibrationHistograms
       ]_vars

\* step 1 in calibration has filled the good-quality plain vector, and
\* step 2, collecting after it, still has empty calibration histograms
C28_Witness ==
  /\ last.op = "ProcessDataCollection"
  /\ last.step = 2
  /\ steps[1].fState = QCORRSTEP_calibration
  /\ steps[2].fState = QCORRSTEP_calibration
  /\ plain.fGoodQuality
  /\ Obj(steps[1].fCalibrationHistograms) # CreateComponentsProfileHistograms(ConfHarmonics)
  /\ Obj(steps[2].fCalibrationHistograms) = CreateComponentsProfileHistograms(ConfHarmonics)
  /\ ~Corrected(1).fGoodQuality

\* the previous-pass histograms of step st are allocated and attached
InputIsAttached(st) ==
  st.fInputHistograms # NULL /\ Obj(st.fInputHistograms).attached

\* C29: whenever a step is in applyCollect or apply, the histograms of the
\* previous pass its correction reads are ones AttachInput attached, after
\* any order of CreateSupportHistograms and AttachInput calls (also
\* CreateSupportHistograms again after a successful AttachInput), and
\* AttachInput is never reached without the histograms object allocated.
C29_AttachedStore ==
  /\ \A s \in Steps :
       steps[s].fState \in {QCORRSTEP_applyCollect, QCORRSTEP_apply}
         => InputIsAttached(steps[s])
  /\ (gain # NULL /\ conf.kind = "channels")
       => (Obj(gain).fState \in {QCORRSTEP_applyCollect, QCORRSTEP_apply}
             => InputIsAttached(Obj(gain)))
  /\ last.op \in {"AttachInput", "GainAttachInput"} => ~aborted

\* C30: after ProcessCorrections of a Recentering step in applyCollect or
\* apply the quality of the corrected output is the quality the current Qn
\* vector had on entry, and the call returns TRUE in every case; a
\* good-quality input whose bin is not validated gives a good-quality output
\* with the components of the input, not corrected.
C30_QualityAndReturn ==
  [][ ( /\ last'.op = "ProcessCorrections"
        /\ steps[last'.step].fState # QCORRSTEP_calibration )
      => LET s == last'.step
             current == GetCurrentQnVector
         IN  /\ ~aborted'
             /\ last'.ret
             /\ CorrectedIn(steps', s).fGoodQuality = current.fGoodQuality
             /\ ( /\ current.fGoodQuality
                  /\ ~BinContentValidated(Obj(steps[s].fInputHistograms), evClass) )
                  => /\ CorrectedIn(steps', s).fQnX = current.fQnX
                     /\ CorrectedIn(steps', s).fQnY = current.fQnY
    ]_vars

\* step 1 in apply has been handed a good-quality plain vector in an event
\* class whose bin is not validated: it returned TRUE and its output is of
\* good quality with the components of the plain vector
C30_Witness ==
  /\ last.op = "ProcessCorrections"
  /\ last.step = 1
  /\ last.ret
  /\ steps[1].fState = QCORRSTEP_apply
  /\ ~BinContentValidated(Obj(steps[1].fInputHistograms), evClass)
  /\ plain.fGoodQuality
  /\ plain.fQnX[2] # F(0)
  /\ Corrected(1).fGoodQuality
  /\ Corrected(1).fQnX = plain.fQnX
  /\ Corrected(1).fQnY = plain.fQnY
  /\ cur = 1

====
